---- MODULE Spec2Model ----
(***************************************************************************)
(* Model of the batched image-generation client of Lekhoni                 *)
(* (src/services/geminiService.ts, generateImage).                         *)
(*                                                                         *)
(* One generateImage call is an async function: it runs from one await to  *)
(* the next.  The awaits are the endpoint request inside                   *)
(* generateSingleImage and the three delay(ms) calls.  Every action below  *)
(* is the code that runs between two awaits.                               *)
(*                                                                         *)
(* Strings that the code searches with String.includes are modelled as     *)
(* sequences of tokens; Includes(s, tok) is the substring test.            *)
(***************************************************************************)
EXTENDS Integers, Sequences, FiniteSets, TLC

\* Largest count the caller passes (the UI caps it at 30).
MaxCount == 3

\* Program constants.
MaxAttempts == 3
BackoffBase == 2000
ChattyDelay == 1000
PoliteDelay == 2000
RateLimitCode == 429
SliceLen == 100

Slots == 0..(MaxCount - 1)

BatchError == "Unable to generate images"
TypeError == "TypeError"

(***************************************************************************)
(* The image endpoint.  A response either carries content parts or is a    *)
(* thrown value.  A part has inline data ("" when absent or empty) and     *)
(* text (<<>> when absent or empty).  A thrown value has an optional       *)
(* message, a status (0 when absent) and error.code (0 when absent).       *)
(***************************************************************************)
Part(d, t) == [data |-> d, text |-> t]

Err(hasMsg, msg, status, code) ==
    [hasMessage |-> hasMsg, message |-> msg, status |-> status, code |-> code]

NoErr == Err(FALSE, <<>>, 0, 0)

PartsResponse(ps) == [kind |-> "parts", parts |-> ps, error |-> NoErr]

Thrown(e) == [kind |-> "throw", parts |-> <<>>, error |-> e]

Responses ==
    { PartsResponse(<<Part("A", <<>>)>>),
      PartsResponse(<<Part("B", <<>>)>>),
      PartsResponse(<<Part("", <<"Here is your image">>), Part("A", <<>>)>>),
      PartsResponse(<<Part("", <<"Sorry, I cannot">>)>>),
      PartsResponse(<<Part("", <<"I ">>), Part("", <<"cannot">>)>>),
      PartsResponse(<<Part("", <<"Error ", "429", " quota">>)>>),
      PartsResponse(<<Part("", <<"RESOURCE_EXHAUSTED">>)>>),
      PartsResponse(<<>>),
      PartsResponse(<<Part("", <<>>)>>),
      Thrown(Err(TRUE, <<"got status: ", "429", " Too Many Requests">>, 0, 0)),
      Thrown(Err(FALSE, <<>>, 429, 0)),
      Thrown(Err(FALSE, <<>>, 0, 429)),
      Thrown(Err(TRUE, <<"RESOURCE_EXHAUSTED">>, 0, 0)),
      Thrown(Err(TRUE, <<"SAFETY: prompt blocked">>, 400, 0)),
      Thrown(Err(TRUE, <<"Failed to fetch">>, 0, 0)),
      Thrown(Err(TRUE, <<>>, 0, 0)),
      Thrown(Err(FALSE, <<>>, 500, 0)) }

\* String.prototype.includes on token sequences.
Includes(s, tok) == \E k \in 1..Len(s) : s[k] = tok

\* String.prototype.slice(0, n).
Slice(s, n) == SubSeq(s, 1, IF Len(s) < n THEN Len(s) ELSE n)

\* Index of the first part that carries non-empty inline data, 0 if none.
FirstImagePart(ps) ==
    IF \E k \in 1..Len(ps) : ps[k].data # ""
    THEN CHOOSE k \in 1..Len(ps) :
            /\ ps[k].data # ""
            /\ \A j \in 1..(k - 1) : ps[j].data = ""
    ELSE 0

\* refusalText: the texts of the parts, concatenated in order.
RECURSIVE RefusalText(_)
RefusalText(ps) ==
    IF ps = <<>> THEN <<>> ELSE ps[1].text \o RefusalText(Tail(ps))

DataUri(d) == <<"data:image/png;base64,", d>>

TextError(t) ==
    Err(TRUE,
        <<"Model responded with text", " instead of image: \"">>
            \o Slice(t, SliceLen) \o <<"...\"">>,
        0, 0)

NoImageError == Err(TRUE, <<"No image data returned from API">>, 0, 0)

\* generateSingleImage that treats any text part as a refusal, also when an
\* image part follows (mutant).
GenerateSingleImageTextFirst(resp) ==
    IF resp.kind = "throw"
    THEN [ok |-> FALSE, img |-> <<>>, error |-> resp.error]
    ELSE LET k == FirstImagePart(resp.parts)
             t == RefusalText(resp.parts)
         IN  IF t # <<>>
             THEN [ok |-> FALSE, img |-> <<>>, error |-> TextError(t)]
             ELSE IF k # 0
                  THEN [ok |-> TRUE, img |-> DataUri(resp.parts[k].data), error |-> NoErr]
                  ELSE [ok |-> FALSE, img |-> <<>>, error |-> NoImageError]

\* generateSingleImage applied to what the endpoint answered.
GenerateSingleImage(resp) ==
    IF resp.kind = "throw"
    THEN [ok |-> FALSE, img |-> <<>>, error |-> resp.error]
    ELSE LET k == FirstImagePart(resp.parts)
             t == RefusalText(resp.parts)
         IN  IF k # 0
             THEN [ok |-> TRUE, img |-> DataUri(resp.parts[k].data), error |-> NoErr]
             ELSE IF t # <<>>
                  THEN [ok |-> FALSE, img |-> <<>>, error |-> TextError(t)]
                  ELSE [ok |-> FALSE, img |-> <<>>, error |-> NoImageError]

\* isRateLimit of the catch block.
IsRateLimit(error) ==
    \/ error.hasMessage /\ error.message # <<>> /\ Includes(error.message, "429")
    \/ error.status = RateLimitCode
    \/ error.code = RateLimitCode
    \/ error.hasMessage /\ error.message # <<>>
          /\ Includes(error.message, "RESOURCE_EXHAUSTED")

RECURSIVE Pow2(_)
Pow2(n) == IF n = 0 THEN 1 ELSE 2 * Pow2(n - 1)

\* waitTime, computed after attempts++.
WaitTime(att) == BackoffBase * Pow2(att)

(***************************************************************************)
(* The callers of generateImage: the catch blocks of                       *)
(* VisualStoryView.handleGenerateImage and WritingAssistant.handleAction   *)
(* turn error.message into the message on screen.                          *)
(***************************************************************************)
NothingShown == [by |-> "none", text |-> ""]

\* error.message of what generateImage raises.
RaisedMessage(r) ==
    IF r = BatchError
    THEN <<"Unable to generate images. The model may be refusing the prompt or the service is busy.">>
    ELSE <<"Cannot read properties of undefined (reading 'includes')">>

\* errorMessage of VisualStoryView.handleGenerateImage.
SceneErrorMessage(msg) ==
    IF Includes(msg, "403") THEN "Permission denied (403). API key issue."
    ELSE IF Includes(msg, "429") THEN "Too many requests. Wait a moment."
    ELSE IF Includes(msg, "Refused") \/ Includes(msg, "Safety") \/ Includes(msg, "PROHIBITED")
         THEN "Content blocked by safety filters. Modify prompt."
    ELSE IF Includes(msg, "No image data")
         THEN "No image returned. Try modifying the prompt."
    ELSE "Failed to generate image."

\* setError of WritingAssistant.handleAction.
AssistantErrorMessage(msg) ==
    IF Includes(msg, "403")
    THEN "Permission denied. Your API key may not support this model. Using a free key?"
    ELSE IF Includes(msg, "Refused") \/ Includes(msg, "Safety") \/ Includes(msg, "PROHIBITED")
         THEN "Content prohibited by safety policies. Try a different prompt."
    ELSE "An error occurred while generating content. Please try again."

(***************************************************************************)
(* The text helpers.  The text endpoint answers with response.text (a      *)
(* string, possibly empty), with no text at all, or raises.  A helper      *)
(* settles by returning a string or by raising.                            *)
(***************************************************************************)
TextHelpers ==
    {"generateStoryIdea", "expandText", "suggestCharacter", "translateToBengali",
     "generateSceneDescription"}

TextAnswer(t) == [kind |-> "text", text |-> t]

NoTextResponse == [kind |-> "undefined", text |-> ""]

TextThrown(m) == [kind |-> "throw", text |-> m]

TextResponses ==
    { TextAnswer("Title: ..."), TextAnswer("Translation failed."), TextAnswer(" "),
      TextAnswer(""), NoTextResponse,
      TextThrown("429 RESOURCE_EXHAUSTED"), TextThrown("fetch failed") }

Returned(t) == [settled |-> TRUE, raised |-> FALSE, text |-> t]

Raised(m) == [settled |-> TRUE, raised |-> TRUE, text |-> m]

NotSettled == [settled |-> FALSE, raised |-> FALSE, text |-> ""]

\* The right-hand side of `response.text || ...` in each helper.
OrValue ==
    [h \in TextHelpers |->
        CASE h = "generateStoryIdea" -> "Could not generate idea."
          [] h = "expandText" -> ""
          [] h = "suggestCharacter" -> ""
          [] h = "translateToBengali" -> ""
          [] h = "generateSceneDescription" -> "A dramatic scene from the story."]

\* What the catch block of each helper returns.
CatchValue ==
    [h \in TextHelpers |->
        CASE h = "generateStoryIdea" ->
                "Error generating idea. Please check your API key or connection."
          [] h = "expandText" -> ""
          [] h = "suggestCharacter" -> ""
          [] h = "translateToBengali" -> "Translation failed."
          [] h = "generateSceneDescription" -> "A scene from the story."]

\* A helper whose catch block rethrows (mutant).
TextHelperRethrows(h, resp) ==
    IF resp.kind = "throw" THEN Raised(resp.text)
    ELSE IF resp.kind = "text" /\ resp.text # "" THEN Returned(resp.text)
    ELSE Returned(OrValue[h])

\* try { ...; return response.text || <or value> } catch { return <catch value> }
TextHelper(h, resp) ==
    IF resp.kind = "throw" THEN Returned(CatchValue[h])
    ELSE IF resp.kind = "text" /\ resp.text # "" THEN Returned(resp.text)
    ELSE Returned(OrValue[h])

(***************************************************************************)
(* VisualStoryView.  A scene has an id, a description, the image on show   *)
(* (0 for undefined) and its variants; images are positive numbers.  The   *)
(* timestamp of a scene is never read and is left out.                     *)
(***************************************************************************)
\* Most handler calls the user makes from the screen.
MaxOps == 4

\* Every call creates at most one scene.
SceneIds == 1..MaxOps

Scene(id, d) == [id |-> id, description |-> d, imageUrl |-> 0, variants |-> <<>>]

NoDone == [id |-> 0, images |-> <<>>, before |-> <<>>]

NoEvent == [op |-> "none", id |-> 0, url |-> 0, before |-> <<>>,
            errorsBefore |-> [id \in SceneIds |-> ""]]

\* The lists generateImage can return to the batch started by call n: one or
\* two images.
BatchImages(n) == { <<10 * n>>, <<10 * n, 10 * n + 1>> }

\* Every image a batch of the model can return.
ImageUrls == UNION {{im[k] : k \in 1..Len(im)} : im \in UNION {BatchImages(n) : n \in 1..MaxOps}}

\* updatedScenes of handleGenerateImage, built from the scenes of the render
\* whose handler was called.
WithImages(seq, id, images) ==
    LET upd(sc) == IF sc.id = id
                   THEN [sc EXCEPT !.imageUrl = images[1], !.variants = images \o @]
                   ELSE sc
    IN  [k \in 1..Len(seq) |-> upd(seq[k])]

\* updatedScenes of handleUpdateScene.
WithDescription(seq, id, d) ==
    LET upd(sc) == IF sc.id = id THEN [sc EXCEPT !.description = d] ELSE sc
    IN  [k \in 1..Len(seq) |-> upd(seq[k])]

\* updatedScenes of handleSelectVariant.
WithSelected(seq, id, url) ==
    LET upd(sc) == IF sc.id = id THEN [sc EXCEPT !.imageUrl = url] ELSE sc
    IN  [k \in 1..Len(seq) |-> upd(seq[k])]

\* variants.filter(v => v !== url)
RECURSIVE WithoutUrl(_, _)
WithoutUrl(variants, url) ==
    IF variants = <<>> THEN <<>>
    ELSE (IF Head(variants) # url THEN <<Head(variants)>> ELSE <<>>)
            \o WithoutUrl(Tail(variants), url)

\* handleDeleteVariant that leaves the image on show alone (mutant).
WithoutVariantKeepsShown(seq, id, url) ==
    LET upd(sc) == IF sc.id = id
                   THEN [sc EXCEPT !.variants = WithoutUrl(sc.variants, url)]
                   ELSE sc
    IN  [k \in 1..Len(seq) |-> upd(seq[k])]

\* updatedScenes of handleDeleteVariant.
WithoutVariant(seq, id, url) ==
    LET upd(sc) ==
          IF sc.id = id
          THEN LET newVariants == WithoutUrl(sc.variants, url)
                   newImageUrl == IF sc.imageUrl = url
                                  THEN IF Len(newVariants) > 0 THEN newVariants[1] ELSE 0
                                  ELSE sc.imageUrl
               IN  [sc EXCEPT !.imageUrl = newImageUrl, !.variants = newVariants]
          ELSE sc
    IN  [k \in 1..Len(seq) |-> upd(seq[k])]

\* updatedScenes of handleDeleteScene.
RECURSIVE WithoutScene(_, _)
WithoutScene(seq, id) ==
    IF seq = <<>> THEN <<>>
    ELSE (IF Head(seq).id # id THEN <<Head(seq)>> ELSE <<>>)
            \o WithoutScene(Tail(seq), id)

(***************************************************************************)
(* options.count: a number or nothing.                                     *)
(***************************************************************************)
CountArg(n) == [given |-> TRUE, n |-> n]

NoCount == [given |-> FALSE, n |-> 0]

CountArgs == {CountArg(n) : n \in (-1)..MaxCount} \cup {NoCount}

\* A destructuring default of 0 (mutant).
CountOrDefaultZero(arg) == IF arg.given THEN arg.n ELSE 0

\* `count = 1` of the destructuring.
CountOrDefault(arg) == IF arg.given THEN arg.n ELSE 1

(***************************************************************************)
(* The WritingAssistant panel.  result is null, a string or a list of      *)
(* images; result and error carry the tab of the handleAction call that    *)
(* set them and whether the helper's output stood for a failure.           *)
(***************************************************************************)
Tabs == {"idea", "expand", "char", "trans", "image"}

TextTabs == Tabs \ {"image"}

\* The helper the switch of handleAction calls on a text tab.
HelperOf ==
    [t \in TextTabs |->
        CASE t = "idea" -> "generateStoryIdea"
          [] t = "expand" -> "expandText"
          [] t = "char" -> "suggestCharacter"
          [] t = "trans" -> "translateToBengali"]

NullResult == [kind |-> "null", text |-> "", images |-> <<>>, from |-> "none", failed |-> FALSE]

TextResult(t, tab, failed) ==
    [kind |-> "text", text |-> t, images |-> <<>>, from |-> tab, failed |-> failed]

ImagesResult(im, tab) ==
    [kind |-> "images", text |-> "", images |-> im, from |-> tab, failed |-> FALSE]

NullError == [text |-> "", from |-> "none"]

NoCall == [active |-> FALSE, tab |-> "none", no |-> 0]

NothingInserted == [text |-> "", failed |-> FALSE]

\* `result &&` of the panel: null and the empty string show nothing.
ResultShown(r) == r.kind = "images" \/ (r.kind = "text" /\ r.text # "")

\* isImageResult of the panel.
IsImageResult(r, tab) == tab = "image" /\ r.kind = "images" /\ Len(r.images) > 0

\* The panel offers '+ Insert into Story'.
InsertOffered(r, tab) == ResultShown(r) /\ ~IsImageResult(r, tab) /\ r.kind = "text"

\* The text endpoint raised or gave no text.
HelperFailed(resp) == resp.kind \in {"throw", "undefined"} \/ resp.text = ""

(***************************************************************************)
(* Prompt composition.  The options carry a style or none; a composed      *)
(* prompt is the sequence of the pieces of the template string.            *)
(***************************************************************************)
StyleArg(name) == [given |-> TRUE, name |-> name]

NoStyle == [given |-> FALSE, name |-> ""]

\* The own properties of the stylePrompts object literal.
stylePrompts ==
    [ Cinematic |-> "Style: Cinematic, high-contrast, moody, dramatic lighting, detailed, depth of field.",
      Photorealistic |-> "Style: Photorealistic, realistic textures, ray tracing, hyper-realism.",
      Anime |-> "Style: Anime style, vibrant colors, detailed backgrounds, emotional atmosphere.",
      Watercolor |-> "Style: Watercolor painting, soft edges, artistic, dreamy, paper texture.",
      Impressionistic |-> "Style: Impressionist painting, visible brushstrokes, vibrant colors.",
      Surrealist |-> "Style: Surrealism, dream-like imagery, illogical scenes, unexpected juxtapositions." ]
      @@ ("Bengali Art" :> "Style: Bengali novel cover art style, artistic, cultural aesthetic.")
      @@ ("Digital Art" :> "Style: Digital art, vibrant, clear, detailed.")

\* What an object literal inherits from Object.prototype, as it reads once
\* interpolated into a template string.  Every one of them is truthy.
ObjectPrototype ==
    ("constructor" :> "function Object() { [native code] }")
      @@ ("toString" :> "function toString() { [native code] }")
      @@ ("__proto__" :> "[object Object]")

\* `style = 'Bengali Art'` of the destructuring.
StyleOrDefault(arg) == IF arg.given THEN arg.name ELSE "Bengali Art"

\* stylePrompts[style] || stylePrompts['Digital Art'], interpolated.
SelectedStyle(name) ==
    IF name \in DOMAIN stylePrompts THEN stylePrompts[name]
    ELSE IF name \in DOMAIN ObjectPrototype THEN ObjectPrototype[name]
    ELSE stylePrompts["Digital Art"]

ContentStyle(adult) ==
    IF adult THEN "Mood: Mature, serious, sophisticated."
    ELSE "Mood: Inviting, clear, general audience."

\* imagePrompt.
ComposePrompt(p, arg, adult) ==
    << "Generate an image. Do not offer descriptions.\n    Visual Description: ",
       p, "\n    ", SelectedStyle(StyleOrDefault(arg)), "\n    ", ContentStyle(adult) >>

VARIABLES
    prompt,            \* the prompt argument
    style,             \* options.style, or none
    isAdult,           \* options.isAdult
    imagePrompt,       \* the composed prompt, <<>> before the call
    sent,              \* the prompts the requests issued so far carried
    countArg,          \* options.count as passed, or none
    count,             \* count after the destructuring default
    pc,                \* where the call is suspended
    i,                 \* slot index of the for loop
    attempts,          \* attempts of the current slot
    generated,         \* generated of the current slot
    successfulImages,  \* the result list
    timer,             \* ms of the delay being awaited, 0 if none
    inFlight,          \* endpoint requests awaiting a response: <<slot, n>>
    raised,            \* the error the call rejected with, "none" if none
    nIssued,           \* requests issued so far
    nFailed,           \* requests that failed so far
    slotEnd,           \* per slot: "pending", "active", "succeeded", "abandoned"
    slotReqs,          \* per slot: requests issued
    slotLast,          \* per slot: class of its last response, "none" before
    slotImg,           \* per slot: the image pushed for it, <<>> if none
    logSlot,           \* the slot the log is about
    log                \* responses of slot logSlot and the delay after each

\* One generateSingleImage call on its own.
VARIABLES
    gsiResp,           \* what the endpoint answers
    gsiDone,           \* whether generateSingleImage has settled
    gsiOut             \* what it settled with

imgVars == <<prompt, style, isAdult, imagePrompt, sent, countArg, count, pc, i, attempts, generated, successfulImages, timer, inFlight,
             raised, nIssued, nFailed, slotEnd, slotReqs, slotLast, slotImg,
             logSlot, log>>

\* One call of a text helper.
VARIABLES
    tHelper,           \* which helper is called
    tArg,              \* its text argument
    tPc,               \* "idle", "awaiting" the endpoint, "done"
    tReqs,             \* requests issued to the text endpoint
    tResp,             \* what the endpoint answered, once it has
    tOut               \* how the helper settled

\* The caller of generateImage.
VARIABLES
    shown              \* the error message the caller's catch block has set

\* VisualStoryView over one chapter.
VARIABLES
    contentLong,       \* chapter.content.length > 50
    scenes,            \* chapter.scenes as the parent holds it
    nextId,            \* the next fresh scene id
    adds,              \* handleAddScene calls awaiting the scene description
    gens,              \* handleGenerateImage calls awaiting generateImage
    loadingIds,        \* the component's loadingIds
    errorIds,          \* the component's errorIds, "" for no entry
    lastDone,          \* the batch completion the last step made, if it was one
    lastEvent          \* the failed batch or variant deletion the last step made

\* The WritingAssistant panel.
VARIABLES
    activeTab,         \* the tab on show
    inputText,         \* the textarea of the trans and image tabs
    loading,           \* the component's loading flag
    result,            \* the component's result, with the tab of the call that set it
    aError,            \* the component's error, with the tab of the call that set it
    aCall,             \* the handleAction call awaiting its helper, if any
    effectPending,     \* the effect of a tab change has not run yet
    lastInserted       \* the text last handed to onInsert

\* The user at the screen.
VARIABLES
    activeView,        \* StoryEditor's activeView: which panel is mounted
    opsLeft            \* handler calls the user still makes from the screen

\* StoryEditor: the story it edits and how it hands it to onSave.
VARIABLES
    localStory,        \* the state localStory
    storyRef,          \* storyRef.current
    activeChapterId,   \* the state activeChapterId, 0 for ''
    mountChapterId,    \* activeChapterId as the first render closed over it
    draggedIndex,      \* the state draggedIndex, 0 for null
    saveTimeout,       \* the timer saveTimeoutRef.current names and the story it saves
    handed,            \* the story last handed to onSave
    updates,           \* the onUpdateChapter calls image generations still owe
    mounted,           \* onBack has not been called
    chaptersMade,      \* how many chapter ids crypto.randomUUID has given out
    lastSave           \* which code handed the story to onSave last

\* The generateImage that runs its requests in parallel.
VARIABLES
    parCountArg,       \* options.count as the caller passed it
    parCount,          \* count after the destructuring default
    parPc,             \* where the call is
    parReqs,           \* the promise of each request
    parOrder,          \* the requests in the order in which they settled
    parOut             \* how the call ended

gsiVars == <<gsiResp, gsiDone, gsiOut>>

parVars == <<parCountArg, parCount, parPc, parReqs, parOrder, parOut>>

edVars == <<localStory, storyRef, activeChapterId, mountChapterId, draggedIndex,
            saveTimeout, handed, updates, mounted, chaptersMade, lastSave>>

viewVars == <<contentLong, scenes, nextId, adds, gens, loadingIds,
              errorIds, lastDone, lastEvent>>

asstVars == <<activeTab, inputText, loading, result, aError, aCall, effectPending,
              lastInserted>>

userVars == <<activeView, opsLeft>>

txtVars == <<tHelper, tArg, tPc, tReqs, tResp, tOut>>

uiVars == <<shown>>

vars == <<imgVars, gsiVars, txtVars, uiVars, viewVars, asstVars, userVars, edVars, parVars>>

\* The variables a generateImage call leaves alone.
OutsideImg == <<gsiVars, txtVars, uiVars, viewVars, asstVars, userVars, edVars, parVars>>

\* The variables a generateSingleImage call on its own leaves alone.
OutsideGsi == <<imgVars, txtVars, uiVars, viewVars, asstVars, userVars, edVars, parVars>>

\* The variables a text helper call leaves alone.
OutsideTxt == <<imgVars, gsiVars, uiVars, viewVars, asstVars, userVars, edVars, parVars>>

\* The variables VisualStoryView leaves alone.
OutsideView == <<imgVars, gsiVars, txtVars, uiVars, asstVars, edVars, parVars>>

\* The variables the WritingAssistant leaves alone.
OutsideAsst == <<imgVars, gsiVars, txtVars, uiVars, viewVars, edVars, parVars>>

\* The variables StoryEditor leaves alone.
OutsideEd == <<imgVars, gsiVars, txtVars, uiVars, viewVars, asstVars, parVars>>

\* The variables the parallel generateImage leaves alone.
OutsidePar == <<imgVars, gsiVars, txtVars, uiVars, viewVars, asstVars, userVars, edVars>>

\* The locals of the call as one record.
Cur ==
    [imagePrompt |-> imagePrompt, sent |-> sent, pc |-> pc, i |-> i, attempts |-> attempts, generated |-> generated,
     successfulImages |-> successfulImages, timer |-> timer,
     inFlight |-> inFlight, raised |-> raised, nIssued |-> nIssued,
     slotEnd |-> slotEnd, slotReqs |-> slotReqs]

Set(st) ==
    /\ imagePrompt' = st.imagePrompt
    /\ sent' = st.sent
    /\ pc' = st.pc
    /\ i' = st.i
    /\ attempts' = st.attempts
    /\ generated' = st.generated
    /\ successfulImages' = st.successfulImages
    /\ timer' = st.timer
    /\ inFlight' = st.inFlight
    /\ raised' = st.raised
    /\ nIssued' = st.nIssued
    /\ slotEnd' = st.slotEnd
    /\ slotReqs' = st.slotReqs

RECURSIVE WhileLoop(_), AfterWhile(_), ForLoop(_)

\* Final without the empty-list check (mutant).
FinalNoCheck(st) == [st EXCEPT !.pc = "returned"]

\* The final check after the for loop.
Final(st) ==
    IF Len(st.successfulImages) = 0
    THEN [st EXCEPT !.pc = "raised", !.raised = BatchError]
    ELSE [st EXCEPT !.pc = "returned"]

\* Issue as a fan-out: the requests of all remaining slots go out at once
\* (mutant).
IssueFanOut(st) ==
    [st EXCEPT !.pc = "request",
               !.sent = @ \cup {st.imagePrompt},
               !.inFlight = @ \cup {<<s, st.slotReqs[s] + 1>> : s \in st.i..(count - 1)},
               !.nIssued = @ + 1,
               !.slotReqs[st.i] = @ + 1,
               !.slotEnd[st.i] = "active"]

\* A request that tells the endpoint when it is a retry (mutant).
IssueRetryHint(st) ==
    [st EXCEPT !.pc = "request",
               !.sent = @ \cup {IF st.attempts > 0
                                THEN Append(st.imagePrompt, "(retry)")
                                ELSE st.imagePrompt},
               !.inFlight = @ \cup {<<st.i, st.slotReqs[st.i] + 1>>},
               !.nIssued = @ + 1,
               !.slotReqs[st.i] = @ + 1,
               !.slotEnd[st.i] = "active"]

\* await generateSingleImage(): one request goes out and the call suspends.
Issue(st) ==
    [st EXCEPT !.pc = "request",
               !.sent = @ \cup {st.imagePrompt},
               !.inFlight = @ \cup {<<st.i, st.slotReqs[st.i] + 1>>},
               !.nIssued = @ + 1,
               !.slotReqs[st.i] = @ + 1,
               !.slotEnd[st.i] = "active"]

\* The while test with an off-by-one attempt cap (mutant).
WhileLoopFourTries(st) ==
    IF st.attempts <= MaxAttempts /\ ~st.generated
    THEN Issue(st)
    ELSE AfterWhile(st)

\* The test of the while loop.
WhileLoop(st) ==
    IF st.attempts < MaxAttempts /\ ~st.generated
    THEN Issue(st)
    ELSE AfterWhile(st)

\* AfterWhile that gives up the batch at the first abandoned slot (mutant).
AfterWhileAbort(st) ==
    LET ended == [st EXCEPT !.slotEnd[st.i] =
                      IF st.generated THEN "succeeded" ELSE "abandoned"]
    IN  IF st.generated /\ st.i < count - 1
        THEN [ended EXCEPT !.pc = "polite", !.timer = PoliteDelay]
        ELSE IF ~st.generated
             THEN Final(ended)
             ELSE ForLoop([ended EXCEPT !.i = @ + 1])

\* AfterWhile that pauses after every successful slot, the last included
\* (mutant).
AfterWhilePoliteAlways(st) ==
    LET ended == [st EXCEPT !.slotEnd[st.i] =
                      IF st.generated THEN "succeeded" ELSE "abandoned"]
    IN  IF st.generated
        THEN [ended EXCEPT !.pc = "polite", !.timer = PoliteDelay]
        ELSE ForLoop([ended EXCEPT !.i = @ + 1])

\* After the while loop: the polite delay, or the next slot.
AfterWhile(st) ==
    LET ended == [st EXCEPT !.slotEnd[st.i] =
                      IF st.generated THEN "succeeded" ELSE "abandoned"]
    IN  IF st.generated /\ st.i < count - 1
        THEN [ended EXCEPT !.pc = "polite", !.timer = PoliteDelay]
        ELSE ForLoop([ended EXCEPT !.i = @ + 1])

\* The test of the for loop and the start of its body.
ForLoop(st) ==
    IF st.i < count
    THEN WhileLoop([st EXCEPT !.attempts = 0, !.generated = FALSE])
    ELSE Final(st)

\* The try block after a successful generateSingleImage.
OnSuccess(st, img) ==
    WhileLoop([st EXCEPT !.successfulImages = Append(@, img),
                         !.generated = TRUE])

\* The catch block.  error.message.includes on a value without a message
\* is a TypeError thrown inside the catch block: it leaves generateImage.
OnError(st, error) ==
    LET att == st.attempts + 1
        s1 == [st EXCEPT !.attempts = att]
    IN  IF IsRateLimit(error)
        THEN [s1 EXCEPT !.pc = "backoff", !.timer = WaitTime(att)]
        ELSE IF ~error.hasMessage
             THEN [s1 EXCEPT !.pc = "raised", !.raised = TypeError]
             ELSE IF Includes(error.message, "Model responded with text")
                        /\ att < 2
                  THEN [s1 EXCEPT !.pc = "chatty", !.timer = ChattyDelay]
                  ELSE AfterWhile(s1)

(***************************************************************************)
(* What the endpoint answered, as the spec classifies it: "image",         *)
(* "text" (text-only), "noimage", "ratelimit" (a thrown 429 /              *)
(* RESOURCE_EXHAUSTED error), "other" (any other thrown error with a       *)
(* message), "nomessage" (any other thrown value without a message).       *)
(***************************************************************************)
Classify(resp) ==
    IF resp.kind = "parts"
    THEN IF \E k \in 1..Len(resp.parts) : resp.parts[k].data # "" THEN "image"
         ELSE IF \E k \in 1..Len(resp.parts) : resp.parts[k].text # <<>>
              THEN "text"
              ELSE "noimage"
    ELSE IF \/ resp.error.status = 429
            \/ resp.error.code = 429
            \/ Includes(resp.error.message, "429")
            \/ Includes(resp.error.message, "RESOURCE_EXHAUSTED")
         THEN "ratelimit"
         ELSE IF resp.error.hasMessage THEN "other" ELSE "nomessage"

\* One choice of the arguments that do not steer the control flow.
OneInput ==
    /\ prompt = "a river at dusk"
    /\ style = NoStyle
    /\ isAdult = FALSE

\* Before generateImage is called.
ImgRest ==
    /\ shown = NothingShown
    /\ imagePrompt = <<>>
    /\ sent = {}
    /\ pc = "start"
    /\ i = 0
    /\ attempts = 0
    /\ generated = FALSE
    /\ successfulImages = <<>>
    /\ timer = 0
    /\ inFlight = {}
    /\ raised = "none"
    /\ nIssued = 0
    /\ nFailed = 0
    /\ slotEnd = [s \in Slots |-> "pending"]
    /\ slotReqs = [s \in Slots |-> 0]
    /\ slotLast = [s \in Slots |-> "none"]
    /\ slotImg = [s \in Slots |-> <<>>]
    /\ logSlot = 0
    /\ log = <<>>

\* No generateImage call is modelled.
ImgIdle == count = 0 /\ countArg = CountArg(0) /\ OneInput /\ ImgRest

\* No generateSingleImage call on its own is modelled.
GsiIdle ==
    /\ gsiResp = PartsResponse(<<>>)
    /\ gsiDone = FALSE
    /\ gsiOut = [ok |-> FALSE, img |-> <<>>, error |-> NoErr]

\* The WritingAssistant as it is mounted.
AsstRest ==
    /\ activeTab = "expand"
    /\ inputText = ""
    /\ loading = FALSE
    /\ result = NullResult
    /\ aError = NullError
    /\ aCall = NoCall
    /\ effectPending = FALSE
    /\ lastInserted = NothingInserted

\* The view as it is mounted on a chapter without scenes.
ViewRest ==
    /\ scenes = <<>>
    /\ nextId = 1
    /\ adds = {}
    /\ gens = {}
    /\ loadingIds = {}
    /\ errorIds = [id \in SceneIds |-> ""]
    /\ lastDone = NoDone
    /\ lastEvent = NoEvent

\* The view is not modelled.
ViewIdle == contentLong = FALSE /\ activeView = "editor" /\ opsLeft = 0 /\ ViewRest

\* `Chapter ${n}`, the title addNewChapter gives.
AutoTitle(n) == [text |-> "Chapter", no |-> n]

\* A title the user typed.
TypedTitle == [text |-> "Dawn", no |-> 0]

\* A chapter that has just been created; scenes counts the changes
\* VisualStoryView has made to the chapter's scenes.
NewChapter(id, n) == [id |-> id, title |-> AutoTitle(n), content |-> <<>>, scenes |-> 0]

\* A character that has just been created.
NewCharacter(id) == [id |-> id, name |-> "New Character", role |-> "Supporting"]

\* A story without chapters.
EmptyStory == [chapters |-> <<>>, coverImage |-> "", characters |-> <<>>]

\* A story of two chapters.
TwoChapterStory ==
    [chapters |-> <<NewChapter(1, 1), NewChapter(2, 2)>>, coverImage |-> "",
     characters |-> <<>>]

\* No timer is pending.
NoTimeout == [pending |-> FALSE, story |-> EmptyStory]

\* onSave has not been called.
NotHanded == [given |-> FALSE, story |-> EmptyStory]

\* StoryEditor is not modelled.
EdRest ==
    /\ localStory = EmptyStory
    /\ storyRef = EmptyStory
    /\ activeChapterId = 0
    /\ mountChapterId = 0
    /\ draggedIndex = 0
    /\ saveTimeout = NoTimeout
    /\ handed = NotHanded
    /\ updates = {}
    /\ mounted = TRUE
    /\ chaptersMade = 0
    /\ lastSave = "none"

\* Most requests a parallel call makes.
MaxPar == 3

\* A promise that was not created, is pending, or has settled.
NoRequest == [state |-> "none", image |-> <<>>, reason |-> NoErr]

PendingRequest == [state |-> "pending", image |-> <<>>, reason |-> NoErr]

\* The parallel call has not ended.
NoOutcome == [kind |-> "none", images |-> <<>>, reason |-> NoErr]

\* No parallel generateImage call is modelled.
ParIdle ==
    /\ parCountArg = CountArg(0)
    /\ parCount = 0
    /\ parPc = "idle"
    /\ parReqs = [k \in 1..MaxPar |-> NoRequest]
    /\ parOrder = <<>>
    /\ parOut = NoOutcome

\* No text helper call is modelled.
TxtIdle ==
    /\ tHelper = "generateStoryIdea"
    /\ tArg = ""
    /\ tPc = "idle"
    /\ tReqs = 0
    /\ tResp = NoTextResponse
    /\ tOut = NotSettled

Init ==
    /\ countArg \in CountArgs
    /\ count = CountOrDefault(countArg)
    /\ OneInput
    /\ ImgRest
    /\ GsiIdle
    /\ TxtIdle
    /\ ViewIdle
    /\ AsstRest
    /\ ParIdle
    /\ EdRest

\* generateImage is called: it runs up to its first await.
Call ==
    /\ pc = "start"
    /\ Set(ForLoop([Cur EXCEPT !.imagePrompt = ComposePrompt(prompt, style, isAdult)]))
    /\ UNCHANGED <<prompt, style, isAdult, countArg, count, nFailed, slotLast, slotImg, logSlot, log>>
    /\ UNCHANGED OutsideImg

\* The endpoint answers the request in flight; the call runs to its next await.
Respond(resp) ==
    /\ pc = "request"
    /\ \E req \in inFlight :
         LET r == GenerateSingleImage(resp)
             done == [Cur EXCEPT !.inFlight = @ \ {req}]
             nxt == IF r.ok THEN OnSuccess(done, r.img) ELSE OnError(done, r.error)
             waits == IF nxt.pc \in {"backoff", "chatty", "polite"}
                      THEN nxt.pc ELSE "none"
             entry == [class |-> Classify(resp), delay |-> waits, ms |-> nxt.timer]
         IN  /\ Set(nxt)
             /\ nFailed' = IF r.ok THEN nFailed ELSE nFailed + 1
             /\ slotLast' = [slotLast EXCEPT ![req[1]] = Classify(resp)]
             /\ slotImg' = IF r.ok THEN [slotImg EXCEPT ![req[1]] = r.img]
                           ELSE slotImg
             /\ logSlot' = req[1]
             /\ log' = IF logSlot = req[1] THEN Append(log, entry) ELSE <<entry>>
    /\ UNCHANGED <<prompt, style, isAdult, countArg, count>>
    /\ UNCHANGED OutsideImg

\* delay(waitTime) of the rate-limit branch ends: back to the while test.
BackoffElapsed ==
    /\ pc = "backoff"
    /\ Set(WhileLoop([Cur EXCEPT !.timer = 0]))
    /\ UNCHANGED <<prompt, style, isAdult, countArg, count, nFailed, slotLast, slotImg, logSlot, log>>
    /\ UNCHANGED OutsideImg

\* delay(1000) ends and `continue` goes back to the while test.
ChattyElapsed ==
    /\ pc = "chatty"
    /\ Set(WhileLoop([Cur EXCEPT !.timer = 0]))
    /\ UNCHANGED <<prompt, style, isAdult, countArg, count, nFailed, slotLast, slotImg, logSlot, log>>
    /\ UNCHANGED OutsideImg

\* delay(2000) after a success ends: i++ and the next slot.
PoliteElapsed ==
    /\ pc = "polite"
    /\ Set(ForLoop([Cur EXCEPT !.timer = 0, !.i = @ + 1]))
    /\ UNCHANGED <<prompt, style, isAdult, countArg, count, nFailed, slotLast, slotImg, logSlot, log>>
    /\ UNCHANGED OutsideImg

Next ==
    \/ Call
    \/ \E resp \in Responses : Respond(resp)
    \/ BackoffElapsed
    \/ ChattyElapsed
    \/ PoliteElapsed

Spec == Init /\ [][Next]_vars

(***************************************************************************)
(* generateSingleImage on its own: one response, one result.               *)
(***************************************************************************)
\* Longest list of content parts in a response.
MaxParts == 3

PartKinds ==
    { Part("A", <<>>), Part("B", <<>>), Part("A", <<"caption">>),
      Part("", <<"Sorry">>), Part("", <<"I cannot">>), Part("", <<>>) }

RECURSIVE PartSeqs(_)
PartSeqs(n) ==
    IF n = 0 THEN {<<>>}
    ELSE PartSeqs(n - 1)
           \cup {Append(ps, q) : ps \in {x \in PartSeqs(n - 1) : Len(x) = n - 1},
                                q \in PartKinds}

SingleResponses == {PartsResponse(ps) : ps \in PartSeqs(MaxParts)} \cup Responses

SingleInit ==
    /\ ImgIdle
    /\ TxtIdle
    /\ ViewIdle
    /\ AsstRest
    /\ ParIdle
    /\ EdRest
    /\ gsiResp \in SingleResponses
    /\ gsiDone = FALSE
    /\ gsiOut = [ok |-> FALSE, img |-> <<>>, error |-> NoErr]

\* generateSingleImage runs to its end on the response.
SingleSettle ==
    /\ ~gsiDone
    /\ gsiDone' = TRUE
    /\ gsiOut' = GenerateSingleImage(gsiResp)
    /\ UNCHANGED <<gsiResp, OutsideGsi>>

SingleNext == SingleSettle

SpecSingle == SingleInit /\ [][SingleNext]_vars

(***************************************************************************)
(* generateImage over its prompt, style and isAdult arguments.             *)
(***************************************************************************)
\* Largest count of the calls whose arguments vary.
PromptCount == 2

Prompts == {"a river at dusk", "a crowded tram"}

StyleArgs ==
    {StyleArg(n) : n \in DOMAIN stylePrompts \cup DOMAIN ObjectPrototype
                            \cup {"", "Oil", "cinematic"}}
      \cup {NoStyle}

\* The styles the calls with varying prompt and isAdult are made with.
PromptStyles == {NoStyle, StyleArg("Anime"), StyleArg("Oil"), StyleArg("constructor")}

PromptInit ==
    /\ count \in 1..PromptCount
    /\ countArg = CountArg(count)
    /\ prompt \in Prompts
    /\ style \in PromptStyles
    /\ isAdult \in BOOLEAN
    /\ ImgRest
    /\ GsiIdle
    /\ TxtIdle
    /\ ViewIdle
    /\ AsstRest
    /\ ParIdle
    /\ EdRest

SpecPrompt == PromptInit /\ [][Next]_vars

\* Calls over every style, the other arguments fixed.
StyleInit ==
    /\ count \in 1..PromptCount
    /\ countArg = CountArg(count)
    /\ prompt = "a river at dusk"
    /\ style \in StyleArgs
    /\ isAdult = FALSE
    /\ ImgRest
    /\ GsiIdle
    /\ TxtIdle
    /\ ViewIdle
    /\ AsstRest
    /\ ParIdle
    /\ EdRest

SpecStyle == StyleInit /\ [][Next]_vars

(***************************************************************************)
(* One call of a text helper.                                              *)
(***************************************************************************)
TextArgs == {"", "Fantasy", "He opened the door."}

TextInit ==
    /\ ImgIdle
    /\ GsiIdle
    /\ ViewIdle
    /\ AsstRest
    /\ ParIdle
    /\ EdRest
    /\ tHelper \in TextHelpers
    /\ tArg \in TextArgs
    /\ tPc = "idle"
    /\ tReqs = 0
    /\ tResp = NoTextResponse
    /\ tOut = NotSettled

\* The helper composes its prompt and awaits ai.models.generateContent.
TextCall ==
    /\ tPc = "idle"
    /\ tPc' = "awaiting"
    /\ tReqs' = tReqs + 1
    /\ UNCHANGED <<tHelper, tArg, tResp, tOut, OutsideTxt>>

\* The endpoint answers and the helper settles.
TextRespond(resp) ==
    /\ tPc = "awaiting"
    /\ tPc' = "done"
    /\ tResp' = resp
    /\ tOut' = TextHelper(tHelper, resp)
    /\ UNCHANGED <<tHelper, tArg, tReqs, OutsideTxt>>

TextNext ==
    \/ TextCall
    \/ \E resp \in TextResponses : TextRespond(resp)

SpecText == TextInit /\ [][TextNext]_vars

(***************************************************************************)
(* generateImage with the caller that awaits it.                           *)
(***************************************************************************)
\* The catch block of VisualStoryView.handleGenerateImage.
SceneCatch ==
    /\ pc = "raised"
    /\ shown = NothingShown
    /\ shown' = [by |-> "VisualStoryView", text |-> SceneErrorMessage(RaisedMessage(raised))]
    /\ UNCHANGED <<imgVars, gsiVars, txtVars, viewVars, asstVars, userVars, edVars, parVars>>

\* The catch block of WritingAssistant.handleAction.
AssistantCatch ==
    /\ pc = "raised"
    /\ shown = NothingShown
    /\ shown' = [by |-> "WritingAssistant", text |-> AssistantErrorMessage(RaisedMessage(raised))]
    /\ UNCHANGED <<imgVars, gsiVars, txtVars, viewVars, asstVars, userVars, edVars, parVars>>

CallerNext ==
    \/ Next
    \/ SceneCatch
    \/ AssistantCatch

SpecCaller == Init /\ [][CallerNext]_vars

(***************************************************************************)
(* VisualStoryView: the handlers, each async handler split at its await.   *)
(* A handler works on the scenes and the onUpdateChapter of the render it  *)
(* was created in; onUpdateChapter puts the chapter it is given in place   *)
(* of the parent's.                                                        *)
(***************************************************************************)
Descriptions == {"", "dawn", "dusk"}

ViewInit ==
    /\ ImgIdle
    /\ GsiIdle
    /\ TxtIdle
    /\ contentLong \in BOOLEAN
    /\ activeView = "visuals"
    /\ opsLeft = MaxOps
    /\ ViewRest
    /\ AsstRest
    /\ ParIdle
    /\ EdRest

\* handleAddScene on a short chapter: no await, the scene is appended at once.
AddSceneNow ==
    /\ ~contentLong
    /\ activeView = "visuals"
    /\ opsLeft > 0
    /\ opsLeft' = opsLeft - 1
    /\ UNCHANGED activeView
    /\ scenes' = Append(scenes, Scene(nextId, "A key scene from this chapter..."))
    /\ nextId' = nextId + 1
    /\ lastDone' = NoDone
    /\ lastEvent' = NoEvent
    /\ UNCHANGED <<contentLong, adds, gens, loadingIds, errorIds>>
    /\ UNCHANGED OutsideView

\* handleAddScene on a long chapter, up to `await generateSceneDescription`.
AddSceneStart ==
    /\ contentLong
    /\ activeView = "visuals"
    /\ opsLeft > 0
    /\ opsLeft' = opsLeft - 1
    /\ UNCHANGED activeView
    /\ adds' = adds \cup {[no |-> opsLeft, snap |-> scenes]}
    /\ lastDone' = NoDone
    /\ lastEvent' = NoEvent
    /\ UNCHANGED <<contentLong, scenes, nextId, gens, loadingIds, errorIds>>
    /\ UNCHANGED OutsideView

\* handleAddScene after the await: [...scenes, newScene] of its own render.
AddSceneFinish(a, resp) ==
    /\ a \in adds
    /\ adds' = adds \ {a}
    /\ scenes' = Append(a.snap,
                        Scene(nextId, TextHelper("generateSceneDescription", resp).text))
    /\ nextId' = nextId + 1
    /\ lastDone' = NoDone
    /\ lastEvent' = NoEvent
    /\ UNCHANGED <<contentLong, activeView, opsLeft, gens, loadingIds, errorIds>>
    /\ UNCHANGED OutsideView

\* handleUpdateScene.
UpdateScene(id, d) ==
    /\ \E k \in 1..Len(scenes) : scenes[k].id = id /\ scenes[k].description # d
    /\ activeView = "visuals"
    /\ opsLeft > 0
    /\ opsLeft' = opsLeft - 1
    /\ UNCHANGED activeView
    /\ scenes' = WithDescription(scenes, id, d)
    /\ errorIds' = [errorIds EXCEPT ![id] = ""]
    /\ lastDone' = NoDone
    /\ lastEvent' = NoEvent
    /\ UNCHANGED <<contentLong, nextId, adds, gens, loadingIds>>
    /\ UNCHANGED OutsideView

\* handleDeleteScene, confirmed.
DeleteScene(id) ==
    /\ \E k \in 1..Len(scenes) : scenes[k].id = id
    /\ activeView = "visuals"
    /\ opsLeft > 0
    /\ opsLeft' = opsLeft - 1
    /\ UNCHANGED activeView
    /\ scenes' = WithoutScene(scenes, id)
    /\ errorIds' = [errorIds EXCEPT ![id] = ""]
    /\ lastDone' = NoDone
    /\ lastEvent' = NoEvent
    /\ UNCHANGED <<contentLong, nextId, adds, gens, loadingIds>>
    /\ UNCHANGED OutsideView

\* A Generate button that stays enabled while the scene is loading (mutant).
GenerateStartWhileLoading(id) ==
    /\ \E k \in 1..Len(scenes) : scenes[k].id = id /\ scenes[k].description # ""
    /\ activeView = "visuals"
    /\ opsLeft > 0
    /\ opsLeft' = opsLeft - 1
    /\ UNCHANGED activeView
    /\ loadingIds' = loadingIds \cup {id}
    /\ errorIds' = [errorIds EXCEPT ![id] = ""]
    /\ gens' = gens \cup {[no |-> opsLeft, id |-> id, snap |-> scenes]}
    /\ lastDone' = NoDone
    /\ lastEvent' = NoEvent
    /\ UNCHANGED <<contentLong, scenes, nextId, adds>>
    /\ UNCHANGED OutsideView

\* handleGenerateImage up to `await generateImage`; the button is disabled
\* while the scene is loading or its description is blank.
GenerateStart(id) ==
    /\ \E k \in 1..Len(scenes) : scenes[k].id = id /\ scenes[k].description # ""
    /\ id \notin loadingIds
    /\ activeView = "visuals"
    /\ opsLeft > 0
    /\ opsLeft' = opsLeft - 1
    /\ UNCHANGED activeView
    /\ loadingIds' = loadingIds \cup {id}
    /\ errorIds' = [errorIds EXCEPT ![id] = ""]
    /\ gens' = gens \cup {[no |-> opsLeft, id |-> id, snap |-> scenes]}
    /\ lastDone' = NoDone
    /\ lastEvent' = NoEvent
    /\ UNCHANGED <<contentLong, scenes, nextId, adds>>
    /\ UNCHANGED OutsideView

\* generateImage returned images: the try block after the await, then finally.
GenerateDone(g, images) ==
    /\ g \in gens
    /\ gens' = gens \ {g}
    /\ scenes' = WithImages(g.snap, g.id, images)
    /\ loadingIds' = loadingIds \ {g.id}
    /\ lastDone' = [id |-> g.id, images |-> images, before |-> scenes]
    /\ lastEvent' = NoEvent
    /\ UNCHANGED <<contentLong, nextId, activeView, opsLeft, adds, errorIds>>
    /\ UNCHANGED OutsideView

\* A catch block that also hands the chapter of its render to onUpdateChapter
\* (mutant).
GenerateFailWritesBack(g, r) ==
    /\ g \in gens
    /\ gens' = gens \ {g}
    /\ scenes' = g.snap
    /\ errorIds' = [errorIds EXCEPT ![g.id] = SceneErrorMessage(RaisedMessage(r))]
    /\ loadingIds' = loadingIds \ {g.id}
    /\ lastDone' = NoDone
    /\ lastEvent' = [op |-> "fail", id |-> g.id, url |-> 0, before |-> scenes,
                     errorsBefore |-> errorIds]
    /\ UNCHANGED <<contentLong, nextId, activeView, opsLeft, adds>>
    /\ UNCHANGED OutsideView

\* handleSelectVariant, from a thumbnail of the scene's variants.
SelectVariant(id, url) ==
    /\ \E k \in 1..Len(scenes) :
          /\ scenes[k].id = id
          /\ \E j \in 1..Len(scenes[k].variants) : scenes[k].variants[j] = url
    /\ activeView = "visuals"
    /\ opsLeft > 0
    /\ opsLeft' = opsLeft - 1
    /\ UNCHANGED activeView
    /\ scenes' = WithSelected(scenes, id, url)
    /\ lastDone' = NoDone
    /\ lastEvent' = NoEvent
    /\ UNCHANGED <<contentLong, nextId, adds, gens, loadingIds, errorIds>>
    /\ UNCHANGED OutsideView

\* handleDeleteVariant, confirmed, from a thumbnail of the scene's variants.
DeleteVariant(id, url) ==
    /\ \E k \in 1..Len(scenes) :
          /\ scenes[k].id = id
          /\ \E j \in 1..Len(scenes[k].variants) : scenes[k].variants[j] = url
    /\ activeView = "visuals"
    /\ opsLeft > 0
    /\ opsLeft' = opsLeft - 1
    /\ UNCHANGED activeView
    /\ scenes' = WithoutVariant(scenes, id, url)
    /\ lastDone' = NoDone
    /\ lastEvent' = [op |-> "deleteVariant", id |-> id, url |-> url, before |-> scenes,
                     errorsBefore |-> errorIds]
    /\ UNCHANGED <<contentLong, nextId, adds, gens, loadingIds, errorIds>>
    /\ UNCHANGED OutsideView

\* generateImage raised: the catch block, then finally.
GenerateFail(g, r) ==
    /\ g \in gens
    /\ gens' = gens \ {g}
    /\ errorIds' = [errorIds EXCEPT ![g.id] = SceneErrorMessage(RaisedMessage(r))]
    /\ loadingIds' = loadingIds \ {g.id}
    /\ lastDone' = NoDone
    /\ lastEvent' = [op |-> "fail", id |-> g.id, url |-> 0, before |-> scenes,
                     errorsBefore |-> errorIds]
    /\ UNCHANGED <<contentLong, scenes, nextId, activeView, opsLeft, adds>>
    /\ UNCHANGED OutsideView

ViewNext ==
    \/ AddSceneNow
    \/ AddSceneStart
    \/ \E a \in adds, resp \in {TextAnswer("dawn"), TextThrown("fetch failed")} :
          AddSceneFinish(a, resp)
    \/ \E id \in SceneIds, d \in Descriptions : UpdateScene(id, d)
    \/ \E id \in SceneIds : DeleteScene(id)
    \/ \E id \in SceneIds : GenerateStart(id)
    \/ \E g \in gens : \E images \in BatchImages(g.no) : GenerateDone(g, images)
    \/ \E g \in gens, r \in {BatchError, TypeError} : GenerateFail(g, r)
    \/ \E id \in SceneIds, url \in ImageUrls : SelectVariant(id, url)
    \/ \E id \in SceneIds, url \in ImageUrls : DeleteVariant(id, url)

SpecView == ViewInit /\ [][ViewNext]_vars

(***************************************************************************)
(* The WritingAssistant: the tab buttons, the effect of a tab change, the  *)
(* textarea, handleAction split at its await, and the insert button.       *)
(***************************************************************************)
InputTexts == {"", "a letter"}

AsstInit ==
    /\ ImgIdle
    /\ GsiIdle
    /\ TxtIdle
    /\ contentLong = FALSE
    /\ ViewRest
    /\ activeView = "editor"
    /\ opsLeft = MaxOps
    /\ AsstRest
    /\ ParIdle
    /\ EdRest

\* A tab button: setActiveTab.
TabClick(t) ==
    /\ ~effectPending
    /\ t # activeTab
    /\ activeView = "editor"
    /\ opsLeft > 0
    /\ opsLeft' = opsLeft - 1
    /\ UNCHANGED activeView
    /\ activeTab' = t
    /\ effectPending' = TRUE
    /\ UNCHANGED <<inputText, loading, result, aError, aCall, lastInserted>>
    /\ UNCHANGED OutsideAsst

\* useEffect on [activeTab]: 'Clear result and error when tab changes'.
TabEffect ==
    /\ effectPending
    /\ effectPending' = FALSE
    /\ result' = NullResult
    /\ aError' = NullError
    /\ inputText' = ""
    /\ UNCHANGED <<activeTab, loading, aCall, lastInserted, activeView, opsLeft>>
    /\ UNCHANGED OutsideAsst

\* The textarea of the trans and image tabs.
TypeInput(x) ==
    /\ ~effectPending
    /\ activeTab \in {"trans", "image"}
    /\ x # inputText
    /\ activeView = "editor"
    /\ opsLeft > 0
    /\ opsLeft' = opsLeft - 1
    /\ UNCHANGED activeView
    /\ inputText' = x
    /\ UNCHANGED <<activeTab, loading, result, aError, aCall, effectPending, lastInserted>>
    /\ UNCHANGED OutsideAsst

\* handleAction up to its await; the button is disabled while loading and on
\* the trans tab without input.
ActionStart ==
    /\ ~effectPending
    /\ ~loading
    /\ ~(activeTab = "trans" /\ inputText = "")
    /\ activeView = "editor"
    /\ opsLeft > 0
    /\ opsLeft' = opsLeft - 1
    /\ UNCHANGED activeView
    /\ loading' = TRUE
    /\ result' = NullResult
    /\ aError' = NullError
    /\ aCall' = [active |-> TRUE, tab |-> activeTab, no |-> opsLeft]
    /\ UNCHANGED <<activeTab, inputText, effectPending, lastInserted>>
    /\ UNCHANGED OutsideAsst

\* A text helper settles: setResult(output), then finally.
ActionReturnText(resp) ==
    /\ aCall.active
    /\ aCall.tab \in TextTabs
    /\ result' = TextResult(TextHelper(HelperOf[aCall.tab], resp).text, aCall.tab,
                            HelperFailed(resp))
    /\ loading' = FALSE
    /\ aCall' = NoCall
    /\ UNCHANGED <<activeTab, inputText, aError, effectPending, lastInserted, activeView, opsLeft>>
    /\ UNCHANGED OutsideAsst

\* generateImage returns on the image tab: setResult(output), then finally.
ActionReturnImages(images) ==
    /\ aCall.active
    /\ aCall.tab = "image"
    /\ result' = ImagesResult(images, aCall.tab)
    /\ loading' = FALSE
    /\ aCall' = NoCall
    /\ UNCHANGED <<activeTab, inputText, aError, effectPending, lastInserted, activeView, opsLeft>>
    /\ UNCHANGED OutsideAsst

\* generateImage raises on the image tab: the catch block, then finally.
ActionRaise(r) ==
    /\ aCall.active
    /\ aCall.tab = "image"
    /\ aError' = [text |-> AssistantErrorMessage(RaisedMessage(r)), from |-> aCall.tab]
    /\ result' = NullResult
    /\ loading' = FALSE
    /\ aCall' = NoCall
    /\ UNCHANGED <<activeTab, inputText, effectPending, lastInserted, activeView, opsLeft>>
    /\ UNCHANGED OutsideAsst

\* '+ Insert into Story': onInsert(result).
InsertResult ==
    /\ ~effectPending
    /\ InsertOffered(result, activeTab)
    /\ activeView = "editor"
    /\ opsLeft > 0
    /\ opsLeft' = opsLeft - 1
    /\ UNCHANGED activeView
    /\ lastInserted' = [text |-> result.text, failed |-> result.failed]
    /\ UNCHANGED <<activeTab, inputText, loading, result, aError, aCall, effectPending>>
    /\ UNCHANGED OutsideAsst

AsstNext ==
    \/ \E t \in Tabs : TabClick(t)
    \/ TabEffect
    \/ \E x \in InputTexts : TypeInput(x)
    \/ ActionStart
    \/ \E resp \in TextResponses : ActionReturnText(resp)
    \/ \E images \in BatchImages(1) : ActionReturnImages(images)
    \/ \E r \in {BatchError, TypeError} : ActionRaise(r)
    \/ InsertResult

SpecAssistant == AsstInit /\ [][AsstNext]_vars

(***************************************************************************)
(* The screen with both panels: every awaited generation settles.          *)
(***************************************************************************)
\* Most handler calls the user makes when both panels are on the screen.
LiveOps == 3

ScreenInit ==
    /\ ImgIdle
    /\ GsiIdle
    /\ TxtIdle
    /\ contentLong \in BOOLEAN
    /\ ViewRest
    /\ activeView \in {"editor", "visuals"}
    /\ opsLeft = LiveOps
    /\ AsstRest
    /\ ParIdle
    /\ EdRest

ScreenNext ==
    \/ ViewNext
    \/ AsstNext

\* An awaited generateImage of the view settles.
ViewSettles ==
    \E g \in gens :
        \/ \E images \in BatchImages(g.no) : GenerateDone(g, images)
        \/ \E r \in {BatchError, TypeError} : GenerateFail(g, r)

\* The awaited helper of the assistant settles.
AsstSettles ==
    \/ \E resp \in TextResponses : ActionReturnText(resp)
    \/ \E images \in BatchImages(1) : ActionReturnImages(images)
    \/ \E r \in {BatchError, TypeError} : ActionRaise(r)

FairScreen ==
    ScreenInit /\ [][ScreenNext]_vars /\ WF_vars(ViewSettles) /\ WF_vars(AsstSettles)

\* Largest count of the calls whose termination is checked.
LiveCount == 2

FairInit == Init /\ count <= LiveCount

\* Every request is answered and every timer fires.
FairSpec == FairInit /\ [][Next]_vars /\ WF_vars(Next)

\* ---------------------------------------------------------------------------
\* StoryEditor: edits of the local story, debounced and immediate saves.

\* Handler calls the user makes in the editor.
EditOps == 4

\* The position of the chapter `id` in the story, 0 when it has none.
ChapterAt(story, id) ==
    IF \E k \in 1..Len(story.chapters) : story.chapters[k].id = id
    THEN CHOOSE k \in 1..Len(story.chapters) : story.chapters[k].id = id
    ELSE 0

\* chapters.map(c => c.id === chapter.id ? chapter : c)
WithChapter(story, chapter) ==
    [story EXCEPT !.chapters =
        [k \in 1..Len(story.chapters) |->
            IF story.chapters[k].id = chapter.id THEN chapter ELSE story.chapters[k]]]

\* chapters.map(c => c.id === id ? {...c, content} : c)
WithContent(story, id, content) ==
    [story EXCEPT !.chapters =
        [k \in 1..Len(story.chapters) |->
            IF story.chapters[k].id = id
            THEN [story.chapters[k] EXCEPT !.content = content]
            ELSE story.chapters[k]]]

\* chapters.map(c => c.id === id ? {...c, title} : c)
WithTitle(story, id, title) ==
    [story EXCEPT !.chapters =
        [k \in 1..Len(story.chapters) |->
            IF story.chapters[k].id = id
            THEN [story.chapters[k] EXCEPT !.title = title]
            ELSE story.chapters[k]]]

\* characters.map(c => c.id === id ? {...c, [field]: value} : c)
WithCharacter(story, id, field, value) ==
    [story EXCEPT !.characters =
        [k \in 1..Len(story.characters) |->
            IF story.characters[k].id = id
            THEN [story.characters[k] EXCEPT ![field] = value]
            ELSE story.characters[k]]]

\* before + textToInsert + after, the selection being start..end.
InsertAt(text, start, end, textToInsert) ==
    SubSeq(text, 1, start) \o textToInsert \o SubSeq(text, end + 1, Len(text))

\* content + (content ? sep : '') + textToInsert
AppendTo(text, sep, textToInsert) ==
    text \o (IF text # <<>> THEN <<sep>> ELSE <<>>) \o textToInsert

\* splice(from, 1) and then splice(to, 0, moved), positions counted from 1;
\* the drop of a chapter that is no longer in the list is left out.
Moved(chapters, from, to) ==
    LET rest == SubSeq(chapters, 1, from - 1) \o SubSeq(chapters, from + 1, Len(chapters))
    IN  SubSeq(rest, 1, to - 1) \o <<chapters[from]>> \o SubSeq(rest, to, Len(rest))

\* The chapter shown: localStory.chapters.find(c => c.id === activeChapterId).
HasActiveChapter == ChapterAt(localStory, activeChapterId) # 0

ActiveChapter == localStory.chapters[ChapterAt(localStory, activeChapterId)]

\* What the user types into the textarea, the title and a character field.
TypedContents == {<<>>, <<"typed">>}

\* The handler of a user event runs while the editor is mounted.
UserOp ==
    /\ mounted
    /\ opsLeft > 0
    /\ opsLeft' = opsLeft - 1

\* setLocalStory(story) and the effect that copies it into storyRef; both do
\* nothing once the editor is unmounted.
SetLocalStory(story) ==
    /\ localStory' = (IF mounted THEN story ELSE localStory)
    /\ storyRef' = (IF mounted THEN story ELSE storyRef)

\* clearTimeout of the pending timer and setTimeout(() => onSave(story), 1000).
DebouncedSave(story) ==
    /\ saveTimeout' = [pending |-> TRUE, story |-> story]
    /\ UNCHANGED <<handed, lastSave>>

\* onSave(story) at once; the pending timer is left as it is.
ImmediateSave(story, by) ==
    /\ handed' = [given |-> TRUE, story |-> story]
    /\ lastSave' = by
    /\ UNCHANGED saveTimeout

\* The editor after it is mounted on a story and its effects have run: a
\* story without chapters gets its first chapter, which is saved.
EditorInit ==
    /\ ImgIdle
    /\ GsiIdle
    /\ TxtIdle
    /\ contentLong = FALSE
    /\ ViewRest
    /\ AsstRest
    /\ ParIdle
    /\ activeView = "editor"
    /\ opsLeft = EditOps
    /\ \E story \in {EmptyStory, TwoChapterStory} :
          /\ mountChapterId = (IF story.chapters # <<>> THEN story.chapters[1].id ELSE 0)
          /\ IF story.chapters = <<>>
             THEN /\ localStory = [story EXCEPT !.chapters = <<NewChapter(1, 1)>>]
                  /\ activeChapterId = 1
                  /\ chaptersMade = 1
                  /\ handed = [given |-> TRUE, story |-> localStory]
                  /\ lastSave = "effect"
             ELSE /\ localStory = story
                  /\ activeChapterId = story.chapters[1].id
                  /\ chaptersMade = Len(story.chapters)
                  /\ handed = NotHanded
                  /\ lastSave = "none"
    /\ storyRef = localStory
    /\ draggedIndex = 0
    /\ saveTimeout = NoTimeout
    /\ updates = {}
    /\ mounted = TRUE

\* The textarea's onChange.
HandleUpdateChapter(content) ==
    /\ UserOp
    /\ activeView = "editor"
    /\ HasActiveChapter
    /\ SetLocalStory(WithContent(localStory, activeChapterId, content))
    /\ DebouncedSave(localStory')
    /\ UNCHANGED <<activeView, activeChapterId, mountChapterId, draggedIndex, updates,
                   mounted, chaptersMade>>
    /\ UNCHANGED OutsideEd

\* The title input's onChange.
TitleChange(newTitle) ==
    /\ UserOp
    /\ activeView = "editor"
    /\ HasActiveChapter
    /\ SetLocalStory(WithTitle(localStory, activeChapterId, newTitle))
    /\ DebouncedSave(localStory')
    /\ UNCHANGED <<activeView, activeChapterId, mountChapterId, draggedIndex, updates,
                   mounted, chaptersMade>>
    /\ UNCHANGED OutsideEd

\* The assistant's onInsert: the text goes where the selection is.
HandleInsertText(start, end) ==
    /\ UserOp
    /\ activeView = "editor"
    /\ HasActiveChapter
    /\ start <= end
    /\ end <= Len(ActiveChapter.content)
    /\ SetLocalStory(WithContent(localStory, activeChapterId,
                        InsertAt(ActiveChapter.content, start, end, <<"generated">>)))
    /\ DebouncedSave(localStory')
    /\ UNCHANGED <<activeView, activeChapterId, mountChapterId, draggedIndex, updates,
                   mounted, chaptersMade>>
    /\ UNCHANGED OutsideEd

\* A final transcript of the speech recognition, which runs the
\* insertTextWithRefState of the first render on the refs.
InsertTextWithRefState(start, end) ==
    /\ UserOp
    /\ ChapterAt(storyRef, activeChapterId) # 0
    /\ LET currentChapter == storyRef.chapters[ChapterAt(storyRef, activeChapterId)]
           textToInsert == <<"spoken", " ">>
           atCursor == activeView = "editor" /\ mountChapterId = activeChapterId
           newContent ==
               IF atCursor
               THEN InsertAt(currentChapter.content, start, end, textToInsert)
               ELSE AppendTo(currentChapter.content, " ", textToInsert)
       IN  /\ start <= end
           /\ end <= Len(currentChapter.content)
           /\ ~atCursor => (start = 0 /\ end = 0)
           /\ SetLocalStory(WithContent(storyRef, activeChapterId, newContent))
    /\ DebouncedSave(localStory')
    /\ UNCHANGED <<activeView, activeChapterId, mountChapterId, draggedIndex, updates,
                   mounted, chaptersMade>>
    /\ UNCHANGED OutsideEd

\* VisualStoryView hands a changed chapter to onUpdateChapter from a handler
\* of the current render.
HandleFullChapterUpdate ==
    /\ UserOp
    /\ activeView = "visuals"
    /\ HasActiveChapter
    /\ SetLocalStory(WithChapter(localStory,
                        [ActiveChapter EXCEPT !.scenes = @ + 1]))
    /\ ImmediateSave(localStory', "immediate")
    /\ UNCHANGED <<activeView, activeChapterId, mountChapterId, draggedIndex, updates,
                   mounted, chaptersMade>>
    /\ UNCHANGED OutsideEd

\* VisualStoryView starts an image generation: its handler keeps the chapter
\* and the onUpdateChapter of this render until generateImage settles.
GenerationStarts ==
    /\ UserOp
    /\ activeView = "visuals"
    /\ HasActiveChapter
    /\ updates' = updates \cup {[story |-> localStory, chapter |-> ActiveChapter]}
    /\ UNCHANGED <<activeView, localStory, storyRef, activeChapterId, mountChapterId,
                   draggedIndex, saveTimeout, handed, mounted, chaptersMade, lastSave>>
    /\ UNCHANGED OutsideEd

\* generateImage returned: the handler calls the onUpdateChapter it kept,
\* which is handleFullChapterUpdate over the localStory of that render.
GenerationUpdates(u) ==
    /\ u \in updates
    /\ updates' = updates \ {u}
    /\ SetLocalStory(WithChapter(u.story, [u.chapter EXCEPT !.scenes = @ + 1]))
    /\ ImmediateSave(WithChapter(u.story, [u.chapter EXCEPT !.scenes = @ + 1]),
                     "generation")
    /\ UNCHANGED <<activeView, opsLeft, activeChapterId, mountChapterId, draggedIndex,
                   mounted, chaptersMade>>
    /\ UNCHANGED OutsideEd

\* generateImage raised: the handler calls no onUpdateChapter.
GenerationFails(u) ==
    /\ u \in updates
    /\ updates' = updates \ {u}
    /\ UNCHANGED <<activeView, opsLeft, localStory, storyRef, activeChapterId,
                   mountChapterId, draggedIndex, saveTimeout, handed, mounted, chaptersMade, lastSave>>
    /\ UNCHANGED OutsideEd

\* The assistant's onSetCoverImage, or the cover's remove button.
HandleSetCoverImage(imageBase64) ==
    /\ UserOp
    /\ activeView = "editor"
    /\ imageBase64 = "" => localStory.coverImage # ""
    /\ SetLocalStory([localStory EXCEPT !.coverImage = imageBase64])
    /\ ImmediateSave(localStory', "immediate")
    /\ UNCHANGED <<activeView, activeChapterId, mountChapterId, draggedIndex, updates,
                   mounted, chaptersMade>>
    /\ UNCHANGED OutsideEd

AddNewChapter ==
    /\ UserOp
    /\ activeView \in {"editor", "visuals"}
    /\ chaptersMade' = chaptersMade + 1
    /\ SetLocalStory([localStory EXCEPT
                         !.chapters = Append(@, NewChapter(chaptersMade', Len(@) + 1))])
    /\ activeChapterId' = chaptersMade'
    /\ ImmediateSave(localStory', "immediate")
    /\ UNCHANGED <<activeView, mountChapterId, draggedIndex, updates, mounted>>
    /\ UNCHANGED OutsideEd

AddNewCharacter ==
    /\ UserOp
    /\ activeView = "characters"
    /\ SetLocalStory([localStory EXCEPT
                         !.characters = Append(@, NewCharacter(Len(@) + 1))])
    /\ ImmediateSave(localStory', "immediate")
    /\ UNCHANGED <<activeView, activeChapterId, mountChapterId, draggedIndex, updates,
                   mounted, chaptersMade>>
    /\ UNCHANGED OutsideEd

UpdateCharacter(id, field) ==
    /\ UserOp
    /\ activeView = "characters"
    /\ id \in 1..Len(localStory.characters)
    /\ SetLocalStory(WithCharacter(localStory, id, field, "Mina"))
    /\ ImmediateSave(localStory', "immediate")
    /\ UNCHANGED <<activeView, activeChapterId, mountChapterId, draggedIndex, updates,
                   mounted, chaptersMade>>
    /\ UNCHANGED OutsideEd

HandleDragStart(index) ==
    /\ UserOp
    /\ activeView \in {"editor", "visuals"}
    /\ index \in 1..Len(localStory.chapters)
    /\ draggedIndex' = index
    /\ UNCHANGED <<activeView, localStory, storyRef, activeChapterId, mountChapterId,
                   saveTimeout, handed, updates, mounted, chaptersMade, lastSave>>
    /\ UNCHANGED OutsideEd

HandleDrop(dropIndex) ==
    /\ UserOp
    /\ activeView \in {"editor", "visuals"}
    /\ dropIndex \in 1..Len(localStory.chapters)
    /\ draggedIndex # 0
    /\ draggedIndex # dropIndex
    /\ draggedIndex <= Len(localStory.chapters)
    /\ SetLocalStory([localStory EXCEPT
                         !.chapters = Moved(@, draggedIndex, dropIndex)])
    /\ draggedIndex' = 0
    /\ ImmediateSave(localStory', "immediate")
    /\ UNCHANGED <<activeView, activeChapterId, mountChapterId, updates, mounted, chaptersMade>>
    /\ UNCHANGED OutsideEd

\* A click on a chapter of the sidebar.
SetActiveChapterId(id) ==
    /\ UserOp
    /\ activeView \in {"editor", "visuals"}
    /\ ChapterAt(localStory, id) # 0
    /\ id # activeChapterId
    /\ activeChapterId' = id
    /\ UNCHANGED <<activeView, localStory, storyRef, mountChapterId, draggedIndex,
                   saveTimeout, handed, updates, mounted, chaptersMade, lastSave>>
    /\ UNCHANGED OutsideEd

\* A click on one of the three view buttons.
SetActiveView(view) ==
    /\ UserOp
    /\ view # activeView
    /\ activeView' = view
    /\ UNCHANGED edVars
    /\ UNCHANGED OutsideEd

\* The timer of a debounced save fires.
SaveTimeoutFires ==
    /\ saveTimeout.pending
    /\ handed' = [given |-> TRUE, story |-> saveTimeout.story]
    /\ lastSave' = "debounced"
    /\ saveTimeout' = NoTimeout
    /\ UNCHANGED <<activeView, opsLeft, localStory, storyRef, activeChapterId,
                   mountChapterId, draggedIndex, updates, mounted, chaptersMade>>
    /\ UNCHANGED OutsideEd

\* The back button: clearTimeout, onSave(localStory), onBack().
HandleBack ==
    /\ UserOp
    /\ saveTimeout' = NoTimeout
    /\ handed' = [given |-> TRUE, story |-> localStory]
    /\ lastSave' = "back"
    /\ mounted' = FALSE
    /\ UNCHANGED <<activeView, localStory, storyRef, activeChapterId, mountChapterId,
                   draggedIndex, updates, chaptersMade>>
    /\ UNCHANGED OutsideEd

EditorNext ==
    \/ \E content \in TypedContents : HandleUpdateChapter(content)
    \/ TitleChange(TypedTitle)
    \/ \E start, end \in 0..EditOps : HandleInsertText(start, end)
    \/ \E start, end \in 0..(2 * EditOps) : InsertTextWithRefState(start, end)
    \/ HandleFullChapterUpdate
    \/ GenerationStarts
    \/ \E u \in updates : GenerationUpdates(u)
    \/ \E u \in updates : GenerationFails(u)
    \/ \E imageBase64 \in {"", "cover"} : HandleSetCoverImage(imageBase64)
    \/ AddNewChapter
    \/ AddNewCharacter
    \/ \E id \in 1..EditOps, field \in {"name", "role"} : UpdateCharacter(id, field)
    \/ \E index \in 1..(EditOps + 2) : HandleDragStart(index)
    \/ \E dropIndex \in 1..(EditOps + 2) : HandleDrop(dropIndex)
    \/ \E id \in 1..(EditOps + 2) : SetActiveChapterId(id)
    \/ \E view \in {"editor", "visuals", "characters"} : SetActiveView(view)
    \/ SaveTimeoutFires
    \/ HandleBack

SpecEditor == EditorInit /\ [][EditorNext]_vars

\* ---------------------------------------------------------------------------
\* generateImage with its requests in parallel: every request is made before
\* the call waits, and the call resumes when all of them have settled.

\* What the image endpoint answers to a request of the parallel call.
ParResponses ==
    { PartsResponse(<<Part("A", <<>>)>>),
      PartsResponse(<<Part("", <<"Here is your image">>), Part("B", <<>>)>>),
      PartsResponse(<<Part("", <<"Sorry, I cannot">>)>>),
      PartsResponse(<<>>),
      Thrown(Err(TRUE, <<"Failed to fetch">>, 0, 0)) }

\* new Error(`Model Refused: ${refusalText.slice(0, 100)}...`)
RefusedError(t) ==
    Err(TRUE, <<"Model Refused: ">> \o Slice(t, SliceLen) \o <<"...">>, 0, 0)

\* new Error("Failed to generate any images.")
NoImagesError == Err(TRUE, <<"Failed to generate any images.">>, 0, 0)

\* The promise of a generateSingleImage call once the endpoint has answered.
ParSingleImage(resp) ==
    IF resp.kind = "throw"
    THEN [state |-> "rejected", image |-> <<>>, reason |-> resp.error]
    ELSE LET k == FirstImagePart(resp.parts)
             t == RefusalText(resp.parts)
         IN  IF k # 0
             THEN [state |-> "fulfilled", image |-> DataUri(resp.parts[k].data),
                   reason |-> NoErr]
             ELSE IF t # <<>>
                  THEN [state |-> "rejected", image |-> <<>>, reason |-> RefusedError(t)]
                  ELSE [state |-> "rejected", image |-> <<>>, reason |-> NoImageError]

\* The length of Array.from({ length: count }).
ArrayLength(n) == IF n < 0 THEN 0 ELSE n

\* results.filter(r => r.status === 'fulfilled').map(r => r.value), from
\* the result k on.
RECURSIVE FulfilledValues(_, _)
FulfilledValues(results, k) ==
    IF k > Len(results)
    THEN <<>>
    ELSE (IF results[k].state = "fulfilled" THEN <<results[k].image>> ELSE <<>>)
            \o FulfilledValues(results, k + 1)

\* The last rejected result instead of the first (mutant).
LastRejected(results) ==
    IF \E k \in 1..Len(results) : results[k].state = "rejected"
    THEN CHOOSE k \in 1..Len(results) :
            /\ results[k].state = "rejected"
            /\ \A j \in (k + 1)..Len(results) : results[j].state # "rejected"
    ELSE 0

\* results.find(r => r.status === 'rejected'), 0 when there is none.
FirstRejected(results) ==
    IF \E k \in 1..Len(results) : results[k].state = "rejected"
    THEN CHOOSE k \in 1..Len(results) :
            /\ results[k].state = "rejected"
            /\ \A j \in 1..(k - 1) : results[j].state # "rejected"
    ELSE 0

\* The counts the caller passes to the parallel call.
ParCountArgs == {CountArg(n) : n \in (-1)..MaxPar} \cup {NoCount}

ParInit ==
    /\ ImgIdle
    /\ GsiIdle
    /\ TxtIdle
    /\ ViewIdle
    /\ AsstRest
    /\ EdRest
    /\ parCountArg \in ParCountArgs
    /\ parCount = CountOrDefault(parCountArg)
    /\ parPc = "start"
    /\ parReqs = [k \in 1..MaxPar |-> NoRequest]
    /\ parOrder = <<>>
    /\ parOut = NoOutcome

\* Array.from(...).map(() => generateSingleImage()): every call runs to its
\* await, so all requests are made in the same turn; then the call awaits.
ParIssue ==
    /\ parPc = "start"
    /\ parReqs' = [k \in 1..MaxPar |->
                     IF k <= ArrayLength(parCount) THEN PendingRequest ELSE NoRequest]
    /\ parPc' = "awaiting"
    /\ UNCHANGED <<parCountArg, parCount, parOrder, parOut>>
    /\ UNCHANGED OutsidePar

\* The endpoint answers the request k and its promise settles.
ParSettle(k, resp) ==
    /\ parReqs[k].state = "pending"
    /\ parReqs' = [parReqs EXCEPT ![k] = ParSingleImage(resp)]
    /\ parOrder' = Append(parOrder, k)
    /\ UNCHANGED <<parCountArg, parCount, parPc, parOut>>
    /\ UNCHANGED OutsidePar

\* Promise.allSettled has resolved: the call returns the images or throws.
ParResume ==
    /\ parPc = "awaiting"
    /\ \A k \in 1..MaxPar : parReqs[k].state # "pending"
    /\ LET results == SubSeq(parReqs, 1, ArrayLength(parCount))
           successes == FulfilledValues(results, 1)
           firstError == FirstRejected(results)
       IN  IF successes = <<>>
           THEN /\ parPc' = "raised"
                /\ parOut' = [kind |-> "raised", images |-> <<>>,
                              reason |-> IF firstError # 0
                                         THEN results[firstError].reason
                                         ELSE NoImagesError]
           ELSE /\ parPc' = "returned"
                /\ parOut' = [kind |-> "returned", images |-> successes,
                              reason |-> NoErr]
    /\ UNCHANGED <<parCountArg, parCount, parReqs, parOrder>>
    /\ UNCHANGED OutsidePar

ParNext ==
    \/ ParIssue
    \/ \E k \in 1..MaxPar, resp \in ParResponses : ParSettle(k, resp)
    \/ ParResume

SpecParallel == ParInit /\ [][ParNext]_vars

TypeOK ==
    /\ count \in (-1)..MaxCount
    /\ pc \in {"start", "request", "backoff", "chatty", "polite", "returned", "raised"}
    /\ i \in 0..MaxCount
    /\ attempts \in 0..MaxAttempts
    /\ raised \in {"none", BatchError, TypeError}

(***************************************************************************)
(* Properties of generateImage.                                            *)
(***************************************************************************)
Terminal == pc \in {"returned", "raised"}

CallSlots == 0..(count - 1)

Ended(s) == slotEnd[s] \in {"succeeded", "abandoned"}

\* The images of the slots below n that ended in success, in slot order.
RECURSIVE SucceededImages(_)
SucceededImages(n) ==
    IF n <= 0 THEN <<>>
    ELSE SucceededImages(n - 1)
            \o (IF slotEnd[n - 1] = "succeeded" THEN <<slotImg[n - 1]>> ELSE <<>>)

LogAll(c) == log # <<>> /\ \A k \in 1..Len(log) : log[k].class = c

\* Number of consecutive rate-limited failures of the slot that end at entry k.
RECURSIVE ConsecutiveRateLimited(_)
ConsecutiveRateLimited(k) ==
    IF k = 0 \/ log[k].class # "ratelimit" THEN 0
    ELSE 1 + ConsecutiveRateLimited(k - 1)

\* C1: no error of an individual image request leaves generateImage, whatever
\* the thrown value looks like; the only error the caller can see is the
\* batch-level error, and only when no image was produced.
C1_OnlyBatchErrorPropagates ==
    pc = "raised" => raised = BatchError /\ Len(successfulImages) = 0

\* C2: a call with count >= 1 that returns, returns between 1 and count
\* images, never an empty list; when no request failed it returns exactly
\* count images and issued exactly count requests.
C2_ReturnedLength ==
    (pc = "returned" /\ count >= 1) =>
        /\ Len(successfulImages) >= 1
        /\ Len(successfulImages) <= count
        /\ (nFailed = 0 => Len(successfulImages) = count /\ nIssued = count)

C2_Witness ==
    /\ pc = "returned"
    /\ count >= 2
    /\ nFailed = 0
    /\ Len(successfulImages) = count

\* C3: the call returns exactly the images of the slots that succeeded, in
\* slot order; when the first k >= 1 slots succeed and every remaining slot
\* fails with a non-retryable error, it returns exactly k images and does
\* not raise; for count = 3 with slot outcomes (success, one failure then
\* success, permanent refusal) it returns the images of slots 0 and 1.
C3_SucceededSlotsInOrder ==
    /\ pc = "returned" => successfulImages = SucceededImages(count)
    /\ \A k \in 1..count :
         ( /\ Terminal
           /\ \A s \in 0..(k - 1) : slotEnd[s] = "succeeded"
           /\ \A s \in k..(count - 1) :
                /\ slotReqs[s] = 1
                /\ slotLast[s] \in {"noimage", "other", "nomessage"} )
         => (pc = "returned" /\ Len(successfulImages) = k)
    /\ ( /\ Terminal
         /\ count = 3
         /\ slotEnd[0] = "succeeded" /\ slotReqs[0] = 1
         /\ slotEnd[1] = "succeeded" /\ slotReqs[1] = 2
         /\ slotLast[2] \in {"text", "other"} )
       => (pc = "returned" /\ successfulImages = <<slotImg[0], slotImg[1]>>)

\* C4: when every slot ended without an image (its requests refused,
\* text-only, without image data or rate-limited to exhaustion) the call
\* raises the batch-level error and returns no list; that error is raised
\* only after all count slots were processed; a count = 1 call answered
\* with text only raises it after the retry was used.
C4_AllFailedRaises ==
    /\ ( /\ Terminal
         /\ count >= 1
         /\ \A s \in CallSlots :
              slotLast[s] \in {"text", "noimage", "other", "ratelimit"} )
       => (pc = "raised" /\ raised = BatchError /\ successfulImages = <<>>)
    /\ (raised = BatchError /\ count >= 1)
       => (i = count /\ \A s \in CallSlots : slotEnd[s] = "abandoned")
    /\ (Terminal /\ count = 1 /\ LogAll("text"))
       => (raised = BatchError /\ Len(log) >= 2 /\ slotReqs[0] = Len(log))

C4_Witness ==
    /\ raised = BatchError
    /\ count >= 2
    /\ slotLast[0] = "ratelimit"
    /\ logSlot = count - 1
    /\ LogAll("text")

\* C5: at most one endpoint request is in flight at any time, and a slot
\* gets its first request only after the slot before it has finished and
\* none of that slot's requests is still in flight.
C5_Sequential ==
    /\ Cardinality(inFlight) <= 1
    /\ \A s \in Slots :
         (s >= 1 /\ slotReqs[s] > 0) =>
            /\ Ended(s - 1)
            /\ \A r \in inFlight : r[1] # s - 1

C5_Witness ==
    /\ count >= 2
    /\ pc = "request"
    /\ inFlight = {<<1, 1>>}
    /\ slotEnd[0] = "abandoned"
    /\ slotReqs[0] = 3

\* C6: the backoff waits after the 1st, 2nd and 3rd consecutive rate-limited
\* failure of a slot are 2000, 4000 and 8000 ms; no backoff wait exceeds
\* 8000 ms.
C6_BackoffSchedule ==
    \A k \in 1..Len(log) :
        log[k].class = "ratelimit" =>
            /\ log[k].delay = "backoff"
            /\ log[k].ms = 2000 * Pow2(ConsecutiveRateLimited(k) - 1)
            /\ log[k].ms <= 8000

\* C7 as stated: a slot whose every request is answered with a rate-limit
\* signal is retried after each of three backoff waits and is abandoned
\* only on its 4th failed request.
C7_AbandonedOnFourthFailure ==
    (slotEnd[logSlot] = "abandoned" /\ LogAll("ratelimit")) =>
        /\ Len(log) = 4
        /\ slotReqs[logSlot] = 4
        /\ \A k \in 1..3 : log[k].delay = "backoff"

\* C7 as amended: such a slot issues exactly 3 requests; each failure is
\* followed by a backoff wait, the first two waits by a retry, and after
\* the third wait the slot is abandoned without a 4th request.
C7_AbandonedOnThirdFailure ==
    /\ LogAll("ratelimit") =>
         /\ Len(log) <= 3
         /\ \A k \in 1..Len(log) : log[k].delay = "backoff"
         /\ (logSlot = i /\ pc = "request") => Len(log) <= 2
    /\ (slotEnd[logSlot] = "abandoned" /\ LogAll("ratelimit")) =>
         /\ Len(log) = 3
         /\ slotReqs[logSlot] = 3

C7_Witness ==
    /\ slotEnd[logSlot] = "abandoned"
    /\ LogAll("ratelimit")
    /\ Len(log) = 3
    /\ timer = 0

\* C8: a slot whose every response is text-only issues exactly 2 requests:
\* a flat 1000 ms pause and one retry after the first, and no further
\* request or pause after the second.
C8_TextOnlyTwoRequests ==
    /\ (Ended(logSlot) /\ LogAll("text")) =>
         /\ Len(log) = 2
         /\ slotReqs[logSlot] = 2
         /\ slotEnd[logSlot] = "abandoned"
    /\ LogAll("text") =>
         /\ Len(log) <= 2
         /\ log[1].delay = "chatty" /\ log[1].ms = 1000
         /\ Len(log) = 2 => log[2].delay = "none"

\* C9: a text-only response is never handled by the rate-limit path,
\* whatever its text says: no backoff wait follows it, and a slot gets at
\* most one 1000 ms chatty-response pause.
C9_TextNeverBackedOff ==
    /\ \A k \in 1..Len(log) :
         log[k].class = "text" => log[k].delay \in {"chatty", "none"}
    /\ Cardinality({k \in 1..Len(log) : log[k].delay = "chatty"}) <= 1

\* C10: after a failure that is neither a rate-limit signal nor a text-only
\* response the slot is abandoned at once: no further request for the slot,
\* no delay, and the batch goes on with the next slot.
C10_NonRetryableAbandons ==
    \A k \in 1..Len(log) :
        log[k].class \in {"noimage", "other", "nomessage"} =>
            /\ k = Len(log)
            /\ log[k].delay = "none"
            /\ slotReqs[logSlot] = k
            /\ slotEnd[logSlot] = "abandoned"
            /\ raised # TypeError
            /\ (logSlot + 1 < count => slotReqs[logSlot + 1] = 1)

\* C11: a 2000 ms politeness pause follows exactly the slots that succeeded
\* and are not the last slot; none follows the last slot or an abandoned one.
C11_PolitePause ==
    /\ \A k \in 1..Len(log) :
         /\ log[k].delay = "polite" <=>
               (log[k].class = "image" /\ logSlot < count - 1)
         /\ log[k].delay = "polite" => log[k].ms = 2000
    /\ pc = "polite" =>
         (slotEnd[i] = "succeeded" /\ i < count - 1 /\ timer = 2000)
    /\ \A s \in CallSlots :
         (slotEnd[s] = "abandoned" /\ s = i) => pc # "polite"

C11_Witness ==
    /\ count = 2
    /\ pc = "returned"
    /\ slotEnd[0] = "succeeded"
    /\ logSlot = 1
    /\ log = <<[class |-> "image", delay |-> "none", ms |-> 0]>>

\* C16: every backoff wait is followed by another request for the same slot;
\* the batch never waits out a backoff delay and then abandons the slot.
C16_BackoffThenRetry ==
    [][pc = "backoff" => (pc' = "request" /\ i' = i /\ slotReqs'[i] = slotReqs[i] + 1)]_vars

\* C17: the first text-only response of a slot is followed by a 1000 ms
\* pause and one more request, also when earlier requests of the slot failed
\* with a rate-limit signal.
C17_FirstTextRetried ==
    \A k \in 1..Len(log) :
        ( /\ log[k].class = "text"
          /\ \A j \in 1..(k - 1) : log[j].class = "ratelimit" )
        => (log[k].delay = "chatty" /\ log[k].ms = 1000)

\* C18: whatever the mix of rate-limit and text-only failures, every slot
\* issues between 1 and 3 requests and the call at most 3 * count; when every
\* request is answered the call ends, returning a list or raising the batch
\* error.
OnlyRetryableFailures ==
    \A s \in Slots : slotLast[s] \in {"none", "image", "text", "ratelimit"}

C18_BoundedRequestsAndTermination ==
    /\ [](\A s \in Slots : slotReqs[s] <= 3)
    /\ [](\A s \in CallSlots : Ended(s) => slotReqs[s] >= 1)
    /\ [](count >= 0 => nIssued <= 3 * count)
    /\ []((Terminal /\ OnlyRetryableFailures) =>
             (pc = "returned" \/ raised = BatchError))
    /\ <>Terminal

C18_Witness ==
    /\ count = LiveCount
    /\ Terminal
    /\ OnlyRetryableFailures
    /\ nIssued = 3 * count
    /\ nFailed >= 2 * count

\* C12: generateSingleImage returns the data URI of the first part with
\* non-empty inline data, also when text parts come before it; otherwise,
\* when some part carried text, it fails with the "Model responded with text
\* instead of image" error; otherwise with "No image data returned from API".
C12_SingleImageResult ==
    (gsiDone /\ gsiResp.kind = "parts") =>
        LET ps == gsiResp.parts
            withData == {k \in 1..Len(ps) : ps[k].data # ""}
            withText == {k \in 1..Len(ps) : ps[k].text # <<>>}
        IN  IF withData # {}
            THEN /\ gsiOut.ok
                 /\ \E k \in withData :
                      /\ \A j \in withData : k <= j
                      /\ gsiOut.img = <<"data:image/png;base64,", ps[k].data>>
            ELSE IF withText # {}
                 THEN /\ ~gsiOut.ok
                      /\ SubSeq(gsiOut.error.message, 1, 2) =
                            <<"Model responded with text", " instead of image: \"">>
                 ELSE /\ ~gsiOut.ok
                      /\ gsiOut.error.message = <<"No image data returned from API">>

C12_Witness ==
    /\ gsiDone
    /\ gsiResp = PartsResponse(<<Part("", <<"Sorry">>), Part("B", <<>>), Part("A", <<>>)>>)
    /\ gsiOut.ok
    /\ gsiOut.img = <<"data:image/png;base64,", "B">>

\* C13: the composed prompt is a function of (prompt, style, isAdult) alone,
\* and within one call every request, of every slot and every retry, carries
\* that same composed prompt whatever the endpoint answered before.
C13_OnePromptPerBatch ==
    /\ pc # "start" => imagePrompt = ComposePrompt(prompt, style, isAdult)
    /\ nIssued > 0 => sent = {ComposePrompt(prompt, style, isAdult)}
    /\ pc # "start" =>
         /\ imagePrompt[2] = prompt
         /\ imagePrompt[6] = ContentStyle(isAdult)

C13_Witness ==
    /\ count = 2 /\ pc = "returned" /\ nIssued = 4 /\ nFailed = 2
    /\ Cardinality(sent) = 1
    /\ style = StyleArg("Anime") /\ isAdult

\* C14: a style that is not one of the eight enumerated names, the empty
\* string included, is composed with the Digital Art phrase; an enumerated
\* name with its own phrase; an omitted style with the Bengali Art phrase.
C14_StylePhrase ==
    pc # "start" =>
        LET phrase == imagePrompt[4]
        IN  /\ ~style.given => phrase = stylePrompts["Bengali Art"]
            /\ (style.given /\ style.name \in DOMAIN stylePrompts)
                  => phrase = stylePrompts[style.name]
            /\ (style.given /\ style.name \notin DOMAIN stylePrompts)
                  => phrase = stylePrompts["Digital Art"]

\* The endpoint raised or returned no text.
TextFailed == tResp.kind \in {"throw", "undefined"} \/ tResp.text = ""

\* C15 as stated: the five text helpers never raise; when the endpoint raises
\* or returns empty text, expandText and suggestCharacter return '' and each
\* of the other three returns a fixed non-empty placeholder or error string;
\* each call issues exactly one request.
C15_FixedFallback ==
    /\ tReqs <= 1
    /\ tPc = "done" =>
         /\ tReqs = 1
         /\ tOut.settled /\ ~tOut.raised
         /\ TextFailed =>
              IF tHelper \in {"expandText", "suggestCharacter"}
              THEN tOut.text = ""
              ELSE /\ tOut.text # ""
                   /\ tOut.text \in
                        { "Could not generate idea.",
                          "Error generating idea. Please check your API key or connection.",
                          "Translation failed.",
                          "A dramatic scene from the story.",
                          "A scene from the story." }

\* C15, amended: as above, except that translateToBengali returns '' when the
\* endpoint returns empty text and its error string only when the endpoint
\* raises.
C15_FallbackByCause ==
    /\ tReqs <= 1
    /\ tPc = "done" =>
         /\ tReqs = 1
         /\ tOut.settled /\ ~tOut.raised
         /\ TextFailed =>
              CASE tHelper \in {"expandText", "suggestCharacter"} -> tOut.text = ""
                [] tHelper = "translateToBengali" ->
                     tOut.text = IF tResp.kind = "throw" THEN "Translation failed." ELSE ""
                [] tHelper = "generateStoryIdea" ->
                     tOut.text = IF tResp.kind = "throw"
                                 THEN "Error generating idea. Please check your API key or connection."
                                 ELSE "Could not generate idea."
                [] tHelper = "generateSceneDescription" ->
                     tOut.text = IF tResp.kind = "throw"
                                 THEN "A scene from the story."
                                 ELSE "A dramatic scene from the story."

C15_Witness ==
    /\ tPc = "done" /\ tReqs = 1
    /\ tHelper = "translateToBengali"
    /\ tResp = TextAnswer("")
    /\ tOut = Returned("")

\* Every slot of the call was abandoned and its last response was of class c.
FailedThrough(c) ==
    /\ count >= 1
    /\ raised = BatchError
    /\ \A s \in CallSlots : slotEnd[s] = "abandoned" /\ slotLast[s] = c

\* C19: when a batch fails entirely, the message on screen tells the cause:
\* rate limiting shows "Too many requests", model refusals show the
\* safety-filter message, no image data shows "No image returned", and only
\* other failures show the generic message.
C19_MessageTellsCause ==
    /\ shown.by = "VisualStoryView" =>
         /\ FailedThrough("ratelimit") => shown.text = "Too many requests. Wait a moment."
         /\ FailedThrough("text") =>
               shown.text = "Content blocked by safety filters. Modify prompt."
         /\ FailedThrough("noimage") =>
               shown.text = "No image returned. Try modifying the prompt."
    /\ shown.by = "WritingAssistant" =>
         (FailedThrough("text") =>
               shown.text = "Content prohibited by safety policies. Try a different prompt.")

\* C20: when a batch for a scene completes successfully, the chapter keeps
\* every scene it had just before the completion, in the same order and
\* with the same description; the scene of the batch has the new images in
\* front of the variants it had, and every other scene is as it was.
C20_NothingLostOnCompletion ==
    lastDone # NoDone =>
        /\ Len(scenes) = Len(lastDone.before)
        /\ \A k \in 1..Len(scenes) :
             IF lastDone.before[k].id = lastDone.id
             THEN /\ scenes[k].id = lastDone.id
                  /\ scenes[k].description = lastDone.before[k].description
                  /\ scenes[k].variants = lastDone.images \o lastDone.before[k].variants
             ELSE scenes[k] = lastDone.before[k]

\* C29: a call with count <= 0 issues no request and raises the batch error;
\* a call with count omitted works on exactly one slot.
C29_NoSlotsOrOneSlot ==
    /\ count <= 0 =>
         /\ nIssued = 0 /\ sent = {}
         /\ pc \in {"start", "raised"}
         /\ pc = "raised" => raised = BatchError
    /\ ~countArg.given =>
         /\ \A s \in Slots : s >= 1 => (slotEnd[s] = "pending" /\ slotReqs[s] = 0)
         /\ i \in {0, 1}
         /\ pc # "start" => (slotReqs[0] >= 1 /\ nIssued = slotReqs[0])

C29_Witness ==
    /\ countArg = CountArg(-1)
    /\ pc = "raised" /\ raised = BatchError /\ nIssued = 0

\* C24: when generateImage raises in handleGenerateImage, the scenes of the
\* chapter stay as they were, the error entry of that scene is set and the
\* error entries of all other scenes stay as they were.
C24_FailureLeavesChapter ==
    lastEvent.op = "fail" =>
        /\ scenes = lastEvent.before
        /\ errorIds[lastEvent.id] # ""
        /\ \A id \in SceneIds :
             id # lastEvent.id => errorIds[id] = lastEvent.errorsBefore[id]

C24_Witness ==
    /\ lastEvent.op = "fail" /\ lastEvent.id = 1
    /\ Len(scenes) = 2
    /\ errorIds[1] = "Failed to generate image."
    /\ errorIds[2] = "Failed to generate image."

\* C26: the image on show of every scene is undefined or one of the scene's
\* variants; deleting the variant on show puts the first remaining variant
\* on show, or nothing when no variant remains.
C26_ShownIsVariant ==
    /\ \A k \in 1..Len(scenes) :
         \/ scenes[k].imageUrl = 0
         \/ \E j \in 1..Len(scenes[k].variants) : scenes[k].variants[j] = scenes[k].imageUrl
    /\ lastEvent.op = "deleteVariant" =>
         \A k \in 1..Len(scenes) :
            LET was == lastEvent.before[k]
                remaining == SelectSeq(was.variants, LAMBDA v : v # lastEvent.url)
            IN  (was.id = lastEvent.id /\ was.imageUrl = lastEvent.url) =>
                   /\ scenes[k].variants = remaining
                   /\ scenes[k].imageUrl = IF remaining = <<>> THEN 0 ELSE remaining[1]

C26_Witness ==
    /\ lastEvent.op = "deleteVariant" /\ lastEvent.id = 1
    /\ Len(scenes) = 1
    /\ lastEvent.before[1].imageUrl = lastEvent.url
    /\ Len(lastEvent.before[1].variants) = 2
    /\ scenes[1].imageUrl = lastEvent.before[1].variants[2]

\* C21: once the effect of a tab change has run, a result or error on
\* display was set by a handleAction call made on the tab on show.
C21_DisplayBelongsToTab ==
    ~effectPending =>
        /\ ResultShown(result) => result.from = activeTab
        /\ aError.text # "" => aError.from = activeTab

\* C27: when a text helper's output stands for a failure (the endpoint raised
\* or gave no text), the panel offers no '+ Insert into Story', and no such
\* output is ever handed to onInsert.
C27_FailureNotInsertable ==
    /\ result.failed => ~InsertOffered(result, activeTab)
    /\ ~lastInserted.failed

\* C25: every generation started from the screen clears its loading marker
\* in the end, whether it succeeds or fails, and while a marker is set no
\* second generation is started for the same panel or scene.
C25_LoadingMarkerCleared ==
    /\ [](\A id \in SceneIds :
             /\ id \in loadingIds <=> \E g \in gens : g.id = id
             /\ Cardinality({g \in gens : g.id = id}) <= 1)
    /\ [](loading <=> aCall.active)
    /\ [][loading => (aCall' = aCall \/ ~aCall'.active)]_vars
    /\ \A id \in SceneIds : (id \in loadingIds) ~> (id \notin loadingIds)
    /\ loading ~> ~loading

C25_Witness ==
    /\ lastEvent.op = "fail" /\ lastEvent.id = 1
    /\ loadingIds = {} /\ gens = {}
    /\ errorIds[1] # ""

\* C22: in the mounted editor, once no debounce timer is pending the story
\* last handed to onSave is localStory; the save of a debounced text or
\* title edit never puts an older story in the place of one that was saved
\* immediately.
C22_SavedIsLocalOnceSettled ==
    (mounted /\ handed.given /\ ~saveTimeout.pending) => handed.story = localStory

\* C23: once handleBack has run, no debounced save is pending and the story
\* last handed to onSave is the last localStory of the editor.
C23_BackSavesLastState ==
    ~mounted => (~saveTimeout.pending /\ handed.given /\ handed.story = localStory)

\* The requests of the parallel call that were fulfilled and rejected.
ParFulfilled ==
    {k \in 1..ArrayLength(parCount) : parReqs[k].state = "fulfilled"}

ParRejected ==
    {k \in 1..ArrayLength(parCount) : parReqs[k].state = "rejected"}

\* Every one of the count requests, and no other, is made before the call
\* waits for an outcome, and no request settles before all are made.
ParAllIssuedFirst ==
    /\ parPc = "start" => parOrder = <<>>
    /\ parPc # "start" =>
         \A k \in 1..MaxPar :
            parReqs[k].state # "none" <=> k <= ArrayLength(parCount)

\* The call returns when a request was fulfilled, and the list it returns
\* holds the images of the fulfilled requests by ascending request index.
ParImagesInIndexOrder ==
    /\ parOut.kind = "raised" => ParFulfilled = {}
    /\ parOut.kind = "returned" =>
         /\ ParFulfilled # {}
         /\ Len(parOut.images) = Cardinality(ParFulfilled)
         /\ \A m \in 1..Len(parOut.images) :
              \E k \in ParFulfilled :
                 /\ Cardinality({j \in ParFulfilled : j <= k}) = m
                 /\ parOut.images[m] = parReqs[k].image

\* The call raised the rejection reason of its lowest-index rejected request.
ParRaisedLowestReason ==
    /\ ParRejected # {}
    /\ \E k \in ParRejected :
          /\ \A j \in ParRejected : k <= j
          /\ parOut.reason = parReqs[k].reason

\* C28 as claimed: all requests are issued before any outcome is awaited,
\* the returned images are in request-index order, and a call without a
\* fulfilled request always raises the reason of its lowest-index request,
\* never a batch-level error.
C28_AlwaysRaisesRequestReason ==
    /\ ParAllIssuedFirst
    /\ ParImagesInIndexOrder
    /\ parOut.kind = "raised" =>
         (ParRaisedLowestReason /\ parOut.reason # NoImagesError)

\* C28: all count requests are issued before any outcome is awaited; the
\* returned list holds the images of the fulfilled requests in request-index
\* order, whatever the order in which they settled; a call with count >= 1
\* and no fulfilled request raises the rejection reason of its lowest-index
\* request, and a call with count <= 0, which makes no request, raises the
\* batch-level error "Failed to generate any images.".
C28_ParallelBatchOutcome ==
    /\ ParAllIssuedFirst
    /\ ParImagesInIndexOrder
    /\ (parOut.kind = "raised" /\ parCount >= 1) => ParRaisedLowestReason
    /\ (parOut.kind = "raised" /\ parCount <= 0) =>
         (parOut.reason = NoImagesError /\ parOrder = <<>>)

C28_Witness ==
    /\ parCount = 3
    /\ parOrder = <<3, 2, 1>>
    /\ parReqs[1].reason = Err(TRUE, <<"Failed to fetch">>, 0, 0)
    /\ parReqs[2].reason = NoImageError
    /\ parReqs[3].reason = RefusedError(<<"Sorry, I cannot">>)
    /\ parOut.kind = "raised"
    /\ parOut.reason = parReqs[1].reason

====
